---- MODULE Spec2Model ----
(***************************************************************************)
(* A model of the stock screening pipeline of newer-zhu/investment:        *)
(*   - api.get_stock_history: the per-symbol CSV history cache with        *)
(*     gap-fill (src/api.py);                                              *)
(*   - selectStocks.pick_stocks_multithread and the post-processing of     *)
(*     __main__: the worker pool scan, the collection of the results, the  *)
(*     dedup and the sort (src/selectStocks.py).                           *)
(*   - selectStocks.check_stock with its scores, the loaders of the        *)
(*     reference sets and load_filter_lists (src/selectStocks.py);         *)
(*   - selectStocks.init_quote_dict over the table stock_data and          *)
(*     DbUtils.upsert_df (src/selectStocks.py, src/db_utils.py);           *)
(*   - utils.parse_number on short texts (src/utils.py);                   *)
(*   - email_job.schedule_jobs and run_timer: the registry of the daily    *)
(*     jobs (src/email_job.py).                                            *)
(* Dates are day numbers: "+ pd.Timedelta(days=1)" is "+ 1"; where the     *)
(* code works on the text YYYYMMDD, strftime gives its digits.             *)
(***************************************************************************)
EXTENDS Integers, Sequences, FiniteSets, TLC

VARIABLES
    cache_file,   \* cache/<symbol>_history.csv: [exists, rows]
    today,        \* pd.Timestamp.now().normalize()
    h,            \* what the last step of the history model did (observation)
    cache_dir,    \* the cache files the workers of a scan use: code -> [exists, rows]
    writes,       \* the writes of cache files by the tasks of a scan (observation)
    stock_list,   \* the codes load_filter_lists returned, in order
    outcome,      \* outcome[i]: what check_stock did in the i-th submitted task
    max_workers,  \* size of the ThreadPoolExecutor
    task,         \* task[i]: "queued" | "running" | "finished" | "collected"
    results,      \* the list `results` of pick_stocks_multithread
    pc,           \* position of the main thread
    picked,       \* the DataFrame held by __main__
    QUOTE_DICT,          \* code -> quote row
    FUND_FLOW_DICT,      \* code -> fund flow row
    INFO_CACHE,          \* code -> industry (None: a failed lookup)
    HALF_YEAR_HIGH_SET,  \* the codes of the new-high ranking
    ljqd_blacklist,      \* the codes of the falling-volume-and-price ranking
    stock_data,          \* the table stock_data of the database
    op,           \* what the last step of the screening model did (observation)
    jobs,               \* schedule.jobs of the mail timer
    last_refresh_date,  \* the local of run_timer
    now,                \* the minute of the day the mail timer reads
    timer         \* position of run_timer: "off" | "pending" | "refresh" | "sleep"

timerVars == <<jobs, last_refresh_date, now, timer>>
histVars == <<cache_file, today, h, cache_dir, writes, timerVars>>
scanVars == <<stock_list, outcome, max_workers, task, results, pc, picked>>
refVars == <<QUOTE_DICT, FUND_FLOW_DICT, INFO_CACHE, HALF_YEAR_HIGH_SET, ljqd_blacklist>>
screenVars == <<QUOTE_DICT, FUND_FLOW_DICT, INFO_CACHE, HALF_YEAR_HIGH_SET, ljqd_blacklist,
                stock_data, op>>
vars == <<cache_file, today, h, cache_dir, writes, stock_list, outcome, max_workers, task,
          results, pc, picked, QUOTE_DICT, FUND_FLOW_DICT, INFO_CACHE, HALF_YEAR_HIGH_SET, ljqd_blacklist,
          stock_data, op, jobs, last_refresh_date, now, timer>>

(***************************************************************************)
(* Bounds of the model.                                                    *)
(***************************************************************************)
MaxDay == 3

Dates == 1..MaxDay

\* A close of NaN is what pd.to_numeric(errors="coerce") makes of a bad cell.
NaN == 0
Closes == {10, 11}

None == "None"

(***************************************************************************)
(* DataFrames of bars are sequences of [date, close] rows.                 *)
(***************************************************************************)
Bar(d, c) == [date |-> d, close |-> c]

EmptyDataFrame == << >>

ColumnDates(df) == {df[i].date : i \in 1..Len(df)}

MinOf(S) == CHOOSE x \in S : \A y \in S : x <= y
MaxOf(S) == CHOOSE x \in S : \A y \in S : x >= y

\* df[(df["date"] >= start_dt) & (df["date"] <= end_dt)]
FilterRange(df, start_dt, end_dt) ==
    SelectSeq(df, LAMBDA b : b.date >= start_dt /\ b.date <= end_dt)

\* df.dropna(subset=["close"])
DropNaClose(df) == SelectSeq(df, LAMBDA b : b.close # NaN)

\* Faulty variant of the dedup: keep="first".
DropDuplicatesKeepFirst(df) ==
    LET keep(i) == \A j \in 1..(i - 1) : df[j].date # df[i].date
        F[i \in 0..Len(df)] ==
            IF i = 0 THEN << >>
            ELSE IF keep(i) THEN Append(F[i - 1], df[i]) ELSE F[i - 1]
    IN F[Len(df)]

\* df.drop_duplicates(subset=["date"], keep="last")
DropDuplicatesKeepLast(df) ==
    LET keep(i) == \A j \in (i + 1)..Len(df) : df[j].date # df[i].date
        F[i \in 0..Len(df)] ==
            IF i = 0 THEN << >>
            ELSE IF keep(i) THEN Append(F[i - 1], df[i]) ELSE F[i - 1]
    IN F[Len(df)]

\* Insert row b into the date-sorted s after every row whose date is <= b.date.
InsertByDate(s, b) ==
    LET n == Cardinality({i \in 1..Len(s) : s[i].date <= b.date})
    IN SubSeq(s, 1, n) \o <<b>> \o SubSeq(s, n + 1, Len(s))

\* df.sort_values("date"): ascending, rows of equal date keep their order.
SortValuesDate(df) ==
    LET F[i \in 0..Len(df)] ==
            IF i = 0 THEN << >> ELSE InsertByDate(F[i - 1], df[i])
    IN F[Len(df)]

(***************************************************************************)
(* get_stock_history (src/api.py).                                         *)
(***************************************************************************)
\* An answer of ak.stock_zh_a_hist: it raises, or it returns one row per date
\* of some set of dates, each with its close (NaN: an unusable cell).
Raise == [raises |-> TRUE, dates |-> {}, close |-> << >>]
UpstreamRows(up) ==
    LET ds == up.dates
        F[i \in 0..MaxDay] ==
            IF i = 0 THEN << >>
            ELSE IF i \in ds THEN Append(F[i - 1], Bar(i, up.close[i])) ELSE F[i - 1]
    IN F[MaxDay]

Answer(ds, close) == [raises |-> FALSE, dates |-> ds, close |-> close]

\* The answers of an upstream that keeps to the range asked: bars of days of
\* [fetch.start, fetch.end] that have begun.
Upstream(t, fetch) ==
    LET days == {d \in 1..t : fetch.start <= d /\ d <= fetch.end}
    IN {Raise} \cup UNION {{Answer(ds, close) : close \in [ds -> Closes]} : ds \in SUBSET days}
               \cup {Answer({d}, [k \in {d} |-> NaN]) : d \in days}

\* The answers of an upstream that may send bars of any day that has begun, all
\* at the close of the moment of the fetch: the code merges what comes back
\* without filtering it to the range asked.
UpstreamAny(t) ==
    {Raise} \cup {Answer(ds, [k \in ds |-> c]) : ds \in SUBSET (1..t), c \in Closes}
            \cup {Answer({t}, [k \in {t} |-> NaN])}

\* lines 27, 33-36: df_cached, None without a cache file.
LoadCache(file) == IF file.exists THEN [none |-> FALSE, rows |-> file.rows]
                                  ELSE [none |-> TRUE, rows |-> << >>]

\* df_cached is not None and not df_cached.empty
Loaded(df_cached) == ~df_cached.none /\ df_cached.rows # EmptyDataFrame

\* line 44: the cache covers start_date and ends before today.
NeedDeltaFetch(df_cached, start_dt, today_dt) ==
    /\ Loaded(df_cached)
    /\ MinOf(ColumnDates(df_cached.rows)) <= start_dt
    /\ MaxOf(ColumnDates(df_cached.rows)) < today_dt

\* Faulty variant of the cache-hit test: cached_end > today.
CacheCoversPastToday(df_cached, start_dt, today_dt) ==
    /\ Loaded(df_cached)
    /\ MinOf(ColumnDates(df_cached.rows)) <= start_dt
    /\ MaxOf(ColumnDates(df_cached.rows)) > today_dt

\* line 49: the cache covers start_date and reaches today.
CacheCovers(df_cached, start_dt, today_dt) ==
    /\ Loaded(df_cached)
    /\ MinOf(ColumnDates(df_cached.rows)) <= start_dt
    /\ MaxOf(ColumnDates(df_cached.rows)) >= today_dt

\* lines 29-30, 46-47: the range asked of upstream.
FetchRange(df_cached, start_date, end_date, today_dt) ==
    IF NeedDeltaFetch(df_cached, start_date, today_dt)
    THEN [start |-> MaxOf(ColumnDates(df_cached.rows)) + 1, end |-> end_date]
    ELSE [start |-> start_date, end |-> end_date]

\* Faulty variant of the fallback: the cache is not consulted.
FallbackToNothing(df_cached, start_dt, end_dt) == EmptyDataFrame

\* lines 73-79 and 111-117: the cached rows of the range, else an empty frame.
FallbackToCache(df_cached, start_dt, end_dt) ==
    IF Loaded(df_cached)
    THEN SortValuesDate(FilterRange(df_cached.rows, start_dt, end_dt))
    ELSE EmptyDataFrame

\* lines 82-92: merge, dedup keeping the last row of a date, sort.
Combine(df_cached, df_new, need_full_fetch) ==
    LET df_combined == IF Loaded(df_cached) /\ ~need_full_fetch
                       THEN df_cached.rows \o df_new
                       ELSE df_new
    IN SortValuesDate(DropDuplicatesKeepLast(df_combined))

\* Faulty variant of the last step: the merged frame is returned whole.
SaveWithoutSlice(df_combined, start_date, end_date, fetch) ==
    [file |-> [exists |-> TRUE, rows |-> df_combined],
     ret  |-> df_combined,
     req  |-> <<fetch>>]

\* lines 94-106: the merged frame is saved and its rows of the range returned.
SaveAndSlice(df_combined, start_date, end_date, fetch) ==
    [file |-> [exists |-> TRUE, rows |-> df_combined],
     ret  |-> SortValuesDate(FilterRange(df_combined, start_date, end_date)),
     req  |-> <<fetch>>]

\* The whole call: the file afterwards, the frame returned, the upstream
\* requests issued.
GetStockHistory(file, today_dt, start_date, end_date, up) ==
    LET df_cached == LoadCache(file)
        need_full_fetch == ~NeedDeltaFetch(df_cached, start_date, today_dt)
        fetch == FetchRange(df_cached, start_date, end_date, today_dt)
    IN  IF CacheCovers(df_cached, start_date, today_dt)
        THEN [file |-> file,
              ret  |-> SortValuesDate(FilterRange(df_cached.rows, start_date, end_date)),
              req  |-> << >>]
        ELSE IF up.raises
        THEN [file |-> file,
              ret  |-> FallbackToCache(df_cached, start_date, end_date),
              req  |-> <<fetch>>]
        ELSE LET df_new == DropNaClose(UpstreamRows(up))
             IN  IF df_new = EmptyDataFrame
                 THEN [file |-> file,
                       ret  |-> FallbackToCache(df_cached, start_date, end_date),
                       req  |-> <<fetch>>]
                 ELSE SaveAndSlice(Combine(df_cached, df_new, need_full_fetch),
                                   start_date, end_date, fetch)

NoCall == [op |-> "none", start |-> 0, end |-> 0, up |-> None, new |-> << >>,
           req |-> << >>, ret |-> << >>]

ScanIdle ==
    /\ stock_list = << >>
    /\ outcome = << >>
    /\ max_workers = 0
    /\ task = << >>
    /\ results = << >>
    /\ pc = "idle"
    /\ picked = << >>

NoneFrame == [none |-> TRUE, rows |-> << >>]
DataFrame(rows) == [none |-> FALSE, rows |-> rows]

NoOp == [name |-> "none", ret |-> None, steps |-> << >>, args |-> << >>, value |-> 0,
         fundamental_score |-> 0, technical_score |-> 0, total_score |-> 0,
         bars |-> 0, missing |-> FALSE, list |-> << >>, st_codes |-> {}, suspension_codes |-> {},
         raised |-> {}, requests |-> << >>, fetches |-> << >>, df |-> NoneFrame]

ScreenIdle ==
    /\ QUOTE_DICT = << >>
    /\ FUND_FLOW_DICT = << >>
    /\ INFO_CACHE = << >>
    /\ HALF_YEAR_HIGH_SET = {}
    /\ ljqd_blacklist = {}
    /\ stock_data = << >>
    /\ op = NoOp

\* last_refresh_date = None: no day, the days being 1, 2, ...
NoDate == 0

\* The mail timer of email_job.py is not running.
TimerIdle ==
    /\ jobs = << >>
    /\ last_refresh_date = NoDate
    /\ now = 0
    /\ timer = "off"

HistIdle ==
    /\ cache_file = [exists |-> FALSE, rows |-> << >>]
    /\ today = 1
    /\ h = NoCall
    /\ cache_dir = << >>
    /\ writes = {}
    /\ TimerIdle

InitHist ==
    /\ HistIdle
    /\ ScanIdle
    /\ ScreenIdle

\* One call get_stock_history(symbol, start_date, end_date) answered by up.
HistoryCall(start_date, end_date, up) ==
    \E r \in {GetStockHistory(cache_file, today, start_date, end_date, up)} :
        /\ cache_file' = r.file
        /\ h' = [op |-> "call", start |-> start_date, end |-> end_date,
                 up |-> IF r.req = << >> THEN None
                        ELSE IF up.raises THEN "raise"
                        ELSE IF up.dates = {} THEN "empty" ELSE "rows",
                 new |-> IF r.req = << >> \/ up.raises THEN << >>
                         ELSE DropNaClose(UpstreamRows(up)),
                 req |-> r.req, ret |-> r.ret]
        /\ UNCHANGED <<today, cache_dir, writes, timerVars>>
        /\ UNCHANGED scanVars
        /\ UNCHANGED screenVars

Call ==
    \E start_date \in Dates, end_date \in Dates :
        \E up \in Upstream(today, FetchRange(LoadCache(cache_file),
                                              start_date, end_date, today)) :
            HistoryCall(start_date, end_date, up)

CallAnyAnswer ==
    \E start_date \in Dates, end_date \in Dates :
        \E up \in UpstreamAny(today) :
            HistoryCall(start_date, end_date, up)

\* Midnight passes.
NextDay ==
    /\ today < MaxDay
    /\ today' = today + 1
    /\ h' = NoCall
    /\ UNCHANGED <<cache_file, cache_dir, writes, timerVars>>
    /\ UNCHANGED scanVars
    /\ UNCHANGED screenVars

NextHist == Call \/ NextDay

SpecHist == InitHist /\ [][NextHist]_vars

NextHistAny == CallAnyAnswer \/ NextDay

SpecHistAny == InitHist /\ [][NextHistAny]_vars

(***************************************************************************)
(* Properties of get_stock_history, checked under SpecHist (an upstream     *)
(* that keeps to the range asked) or SpecHistAny (one that need not).      *)
(***************************************************************************)
CacheDates == IF cache_file.exists THEN ColumnDates(cache_file.rows) ELSE {}

RowsOf(df) == {df[i] : i \in 1..Len(df)}

\* The rows of the cache file with start <= date <= end, in the file's order.
CachedSlice(file, start, end) ==
    IF file.exists
    THEN SelectSeq(file.rows, LAMBDA b : start <= b.date /\ b.date <= end)
    ELSE << >>

\* C1: when the upstream call raises or returns no bars, the call returns the
\* cached bars of [start_date, end_date] (nothing without a cache) and leaves
\* the cache file as it was.
UpstreamFailureFallsBackToCache ==
    [][(h'.op = "call" /\ h'.up \in {"raise", "empty"})
         => /\ cache_file' = cache_file
            /\ h'.ret = CachedSlice(cache_file, h'.start, h'.end)]_vars

\* C1 witness: the upstream call raised and cached bars were returned.
UpstreamRaisedCacheReturned ==
    /\ h.op = "call"
    /\ h.up = "raise"
    /\ cache_file.exists
    /\ h.ret # << >>

\* C2: the cache file holds at most one bar per date, and after a fetch every
\* fetched bar is in it (so of a cached and a fetched bar of one date the
\* fetched one is kept).
OneBarPerDateNewestKept ==
    /\ \A i, j \in 1..Len(cache_file.rows) :
          i # j => cache_file.rows[i].date # cache_file.rows[j].date
    /\ (h.op = "call" /\ h.new # << >>) => RowsOf(h.new) \subseteq RowsOf(cache_file.rows)

\* C2 witness: a delta fetch (it asked from cached_end + 1 on) brought back a
\* bar dated cached_end, the date of a cached bar.
DeltaFetchOverlappedCache ==
    /\ h.op = "call"
    /\ h.req # << >>
    /\ h.req[1].start > h.start
    /\ \E k \in 1..Len(h.new) : h.new[k].date = h.req[1].start - 1

\* C3: a date once in the cache file is never lost.
CacheDatesAppendOnly == [][CacheDates \subseteq CacheDates']_vars

\* C4: a second call for the same range on the same day leaves one bar per
\* date and issues no upstream request when the first call brought the cache
\* up to today, at most one otherwise.
SecondCallIssuesNoRequest ==
    [][(/\ h.op = "call" /\ h'.op = "call"
        /\ h'.start = h.start /\ h'.end = h.end /\ today' = today)
         => /\ \A i, j \in 1..Len(cache_file'.rows) :
                  i # j => cache_file'.rows[i].date # cache_file'.rows[j].date
            /\ IF CacheDates # {} /\ MaxOf(CacheDates \cup {0}) >= today
               THEN h'.req = << >>
               ELSE Len(h'.req) <= 1]_vars

\* C5: with a cache whose first date is <= start_date and whose last date is
\* >= today, the call returns the cached bars of [start_date, end_date], asks
\* nothing of upstream and leaves the file as it was.
CoveringCacheAnswersAlone ==
    [][(/\ h'.op = "call"
        /\ CacheDates # {}
        /\ MinOf(CacheDates \cup {MaxDay + 1}) <= h'.start
        /\ MaxOf(CacheDates \cup {0}) >= today)
         => /\ h'.req = << >>
            /\ cache_file' = cache_file
            /\ h'.ret = CachedSlice(cache_file, h'.start, h'.end)]_vars

\* C5 witness: a call answered from the cache, with bars, without a request.
AnsweredFromCache ==
    /\ h.op = "call"
    /\ h.req = << >>
    /\ h.ret # << >>

(***************************************************************************)
(* The screening of one symbol: check_stock and the functions it calls     *)
(* (src/selectStocks.py).  Ratios are in hundredths (0.15 is 15), market   *)
(* caps in units of 1e8 yuan (50e8 is 50), traded amounts in units of 1e7  *)
(* yuan, scores in points, total scores in hundredths of a point.          *)
(***************************************************************************)
RECURSIVE Pow(_, _)
Pow(b, e) == IF e = 0 THEN 1 ELSE b * Pow(b, e - 1)

\* An empty dict.
NoDict == [k \in {} |-> 0]

\* dict.get(key, default)
Get(dict, key, default) == IF key \in DOMAIN dict THEN dict[key] ELSE default

\* Faulty variant of the threshold: the boundaries belong to the upper band.
TurnoverThresholdExclusive(free_float_mkt_cap) ==
    IF free_float_mkt_cap < 50 THEN 15
    ELSE IF free_float_mkt_cap < 200 THEN 8
    ELSE 3

\* get_dynamic_turnover_threshold, lines 404-411.
get_dynamic_turnover_threshold(free_float_mkt_cap) ==
    IF free_float_mkt_cap <= 50 THEN 15
    ELSE IF free_float_mkt_cap <= 200 THEN 8
    ELSE 3

\* calculate_total_score, lines 413-415: round(0.6 * f + 0.4 * t, 2), in
\* hundredths of a point.
calculate_total_score(fundamental_score, technical_score) ==
    60 * fundamental_score + 40 * technical_score

\* is_industry (src/utils.py, lines 147-157): some keyword is a substring.
Contains(s, k) ==
    \E i \in 1..(Len(s) - Len(k) + 1) : SubSeq(s, i, i + Len(k) - 1) = k

is_industry(industry, keywords) ==
    /\ industry # None
    /\ industry # ""
    /\ \E k \in keywords : Contains(industry, k)

\* line 678: 科技, 半导体, 互联网, 新能源, 软件, 芯片, AI, 通信 (in English here).
GrowthKeywords == {"technology", "semiconductor", "internet", "new energy",
                   "software", "chip", "AI", "telecom"}

\* Faulty variant of the lookup: a failed lookup is not stored.
GetIndustryForgettingFailures(info, code, answer) ==
    IF code \in DOMAIN info
    THEN [industry |-> info[code], info |-> info, called |-> FALSE]
    ELSE [industry |-> answer,
          info |-> IF answer = None THEN info
                   ELSE [k \in DOMAIN info \cup {code} |-> IF k = code THEN answer ELSE info[k]],
          called |-> TRUE]

\* get_industry_from_cache, lines 327-343.  answer is what the upstream lookup
\* would give: an industry, or None when it raises or has no such row.
get_industry_from_cache(info, code, answer) ==
    IF code \in DOMAIN info
    THEN [industry |-> info[code], info |-> info, called |-> FALSE]
    ELSE [industry |-> answer,
          info |-> [k \in DOMAIN info \cup {code} |-> IF k = code THEN answer ELSE info[k]],
          called |-> TRUE]

\* get_fundamental_data answers {} when the upstream call raises or its frame is
\* empty; otherwise the indicators of the latest quarter.
NoData == [missing |-> TRUE, net_profit |-> 0, roe |-> 0, gross_margin |-> 0,
           net_profit_growth |-> 0, revenue_growth |-> 0, debt_ratio |-> 0,
           current_ratio |-> 0, pe_ratio |-> 0]

\* calculate_fundamental_score, lines 653-760.
FundamentalPoints(d, is_tech) ==
    LET profit == IF d.roe > 18 THEN 30 ELSE IF d.roe > 12 THEN 24
                  ELSE IF d.roe > 8 THEN 18 ELSE IF d.roe > 5 THEN 10 ELSE 0
        growth_weight == IF is_tech THEN 30 ELSE 25
        growth == IF d.revenue_growth > 25 /\ d.net_profit_growth > 25 THEN growth_weight
                  ELSE IF d.revenue_growth > 15 /\ d.net_profit_growth > 15
                       THEN (growth_weight * 8) \div 10
                  ELSE IF d.revenue_growth > 8 /\ d.net_profit_growth > 8
                       THEN (growth_weight * 6) \div 10
                  ELSE IF d.revenue_growth > 0 /\ d.net_profit_growth > 0
                       THEN (growth_weight * 4) \div 10
                  ELSE 0
        valuation == IF d.pe_ratio <= 0 THEN 0
                     ELSE IF is_tech
                     THEN (IF d.pe_ratio < 30 THEN 20 ELSE IF d.pe_ratio < 45 THEN 15
                           ELSE IF d.pe_ratio < 60 THEN 10 ELSE 5)
                     ELSE (IF d.pe_ratio < 20 THEN 20 ELSE IF d.pe_ratio < 30 THEN 15
                           ELSE IF d.pe_ratio < 50 THEN 10 ELSE 5)
        health == IF d.debt_ratio < 30 /\ d.current_ratio > 150 THEN 20
                  ELSE IF d.debt_ratio < 50 /\ d.current_ratio > 100 THEN 15
                  ELSE IF d.debt_ratio < 70 /\ d.current_ratio > 80 THEN 10
                  ELSE 0
        score == profit + growth + valuation + health
    IN IF score > 100 THEN 100 ELSE IF score < 0 THEN 0 ELSE score

\* lines 681-687: the hard gates of a growth issuer.
GrowthGatesPass(d) ==
    /\ ~(d.revenue_growth < 5)
    /\ ~(d.net_profit < 0 /\ d.net_profit_growth < -10)
    /\ ~(d.debt_ratio > 80)

\* lines 689-701: the hard gates of any other issuer.
OtherGatesPass(d) ==
    /\ ~(d.net_profit <= 0)
    /\ ~(d.gross_margin < 10)
    /\ ~(d.net_profit_growth < 0)
    /\ ~(d.revenue_growth < 2)
    /\ ~(d.debt_ratio > 70)
    /\ ~(d.current_ratio < 80)

calculate_fundamental_score(fundamental_data, industry) ==
    IF fundamental_data.missing THEN 0
    ELSE LET is_tech == is_industry(industry, GrowthKeywords)
         IN  IF is_tech /\ ~GrowthGatesPass(fundamental_data) THEN 0
             ELSE IF ~is_tech /\ ~OtherGatesPass(fundamental_data) THEN 0
             ELSE FundamentalPoints(fundamental_data, is_tech)

\* The columns DIF and DEA of lines 511-514 (ewm(span, adjust=False).mean() with
\* spans 12, 26 and 9), exactly: row t (from 0) holds DIF and DEA times 1755^t.
\* Both are unchanged when a constant is taken off every close.
MacdColumns(close) ==
    LET n == Len(close)
        x[t \in 0..(n - 1)] == close[t + 1] - close[1]
        EMA12[t \in 0..(n - 1)] ==
            IF t = 0 THEN 0 ELSE 11 * EMA12[t - 1] + 2 * Pow(13, t - 1) * x[t]
        EMA26[t \in 0..(n - 1)] ==
            IF t = 0 THEN 0 ELSE 25 * EMA26[t - 1] + 2 * Pow(27, t - 1) * x[t]
        DIF[t \in 0..(n - 1)] == Pow(27, t) * EMA12[t] - Pow(13, t) * EMA26[t]
        DEA[t \in 0..(n - 1)] ==
            IF t = 0 THEN 0 ELSE 1404 * DEA[t - 1] + Pow(5, t - 1) * DIF[t]
    IN [t \in 0..(n - 1) |-> [DIF |-> Pow(5, t) * DIF[t], DEA |-> DEA[t]]]

\* calculate_technical_score, lines 489-610, on the frame get_stock_history
\* returned, for a history of fewer than 5 bars: every rolling(window >= 5)
\* column is NaN on the last row, a comparison with NaN is False, and
\* "float(nan or 0)" is nan, so only the MACD points (lines 569-572) can score.
\* There is no test of the number of bars: an empty frame scores 0.0 (line
\* 502), and on a frame of one bar line 606 indexes .iloc[-2] and raises
\* IndexError.
calculate_technical_score(df) ==
    LET n == Len(df)
        m == MacdColumns([i \in 1..n |-> df[i].close])
        macd == 2 * (m[n - 1].DIF - m[n - 1].DEA)
        golden_cross(t) == /\ t >= 1
                           /\ m[t].DIF > m[t].DEA
                           /\ m[t - 1].DIF <= m[t - 1].DEA
        has_gc == \E t \in 0..(n - 1) : t >= n - 10 /\ golden_cross(t)
        score == (IF macd > 0 THEN 12 ELSE 0) + (IF has_gc THEN 8 ELSE 0)
    IN  IF n = 0 THEN [raises |-> FALSE, score |-> 0]
        ELSE IF n = 1 THEN [raises |-> TRUE, score |-> 0]
        ELSE [raises |-> FALSE,
              score |-> IF score > 100 THEN 100 ELSE IF score < 0 THEN 0 ELSE score]

\* A quote row and a fund flow row (the fields check_stock and
\* load_filter_lists read).
Quote(price, amount, turnover_rate, free_float_mkt_cap) ==
    [price |-> price, amount |-> amount, turnover_rate |-> turnover_rate,
     free_float_mkt_cap |-> free_float_mkt_cap]

FundFlow(cum_turnover) == [cum_turnover |-> cum_turnover]

\* Faulty variant of the gates: the cumulative turnover is not looked at.
PassesQuoteGateOnly(quotes, funds, code) ==
    /\ code \in DOMAIN quotes
    /\ LET row == quotes[code]
           dynamic_thr == get_dynamic_turnover_threshold(row.free_float_mkt_cap)
       IN ~(row.turnover_rate < dynamic_thr)

\* lines 434-446 of check_stock: the quote entry and the two turnover gates.
PassesGates(quotes, funds, code) ==
    /\ code \in DOMAIN quotes
    /\ LET row == quotes[code]
           dynamic_thr == get_dynamic_turnover_threshold(row.free_float_mkt_cap)
           fund_data == Get(funds, code, FundFlow(0))
       IN ~(fund_data.cum_turnover < dynamic_thr * 3 \/ row.turnover_rate < dynamic_thr)

\* check_stock, lines 419-471, with the answers its upstream calls get:
\* industry_answer (lines 332-340), fundamental_data (line 616) and up (the
\* history request of api.py).  steps lists what ran after the gates.
check_stock(quotes, funds, info, file, today_dt, code, industry_answer, fundamental_data, up) ==
    IF ~PassesGates(quotes, funds, code)
    THEN [ret |-> "None", steps |-> << >>, info |-> info, file |-> file,
          fundamental_score |-> 0, technical_score |-> 0, total_score |-> 0, bars |-> 0]
    ELSE LET ind == get_industry_from_cache(info, code, industry_answer)
             fundamental_score == calculate_fundamental_score(fundamental_data, ind.industry)
             hist == GetStockHistory(file, today_dt, today_dt - 180, today_dt, up)
             technical == calculate_technical_score(hist.ret)
         IN  IF technical.raises
             THEN [ret |-> "raise", steps |-> <<"industry", "fundamental", "technical">>,
                   info |-> ind.info, file |-> hist.file,
                   fundamental_score |-> fundamental_score, technical_score |-> 0,
                   total_score |-> 0, bars |-> Len(hist.ret)]
             ELSE [ret |-> "row",
                   steps |-> <<"industry", "fundamental", "technical", "total">>,
                   info |-> ind.info, file |-> hist.file,
                   fundamental_score |-> fundamental_score,
                   technical_score |-> technical.score,
                   total_score |-> calculate_total_score(fundamental_score, technical.score),
                   bars |-> Len(hist.ret)]

(***************************************************************************)
(* The reference loaders and load_filter_lists (src/selectStocks.py).      *)
(***************************************************************************)
\* Main-board codes, a ChiNext code, and codes of the other masked boards.
Codes == {"000001", "600000"}
ChiNext == "300750"
MaskedCodes == {ChiNext, "301001", "688001", "689001", "830001"}

\* line 16: the default of max_funds, in yuan.
MAX_FUNDS == 20000

\* A code cell of an upstream frame: a str, or an int64 (text is its str()).
StrCell(text) == [int |-> FALSE, text |-> text]
IntCell(text) == [int |-> TRUE, text |-> text]

\* str(cell), .astype(str)
str(cell) == cell.text

\* str.zfill(width)
RECURSIVE zfill(_, _)
zfill(s, width) == IF Len(s) >= width THEN s ELSE zfill("0" \o s, width)

\* str.startswith(prefix)
StartsWith(s, prefix) == Len(s) >= Len(prefix) /\ SubSeq(s, 1, Len(prefix)) = prefix

\* lines 212 and 369: the mask of the prefixes 300, 301, 688, 689 and 8.
MaskedPrefix(code) ==
    \E prefix \in {"300", "301", "688", "689", "8"} : StartsWith(code, prefix)

\* What an upstream call gives: it raises, or it returns a frame of rows.
Fails == [raises |-> TRUE, rows |-> << >>]
Frame(rows) == [raises |-> FALSE, rows |-> rows]

RowSet(frame) == {frame.rows[i] : i \in 1..Len(frame.rows)}

\* load_ljqd_blacklist, lines 39-61: the codes of the rows with days >= min_days,
\* as the frame holds them; the except branch only prints, so the set keeps its
\* old value when the upstream call raises.
load_ljqd_blacklist(old, answer, min_days) ==
    IF answer.raises THEN old
    ELSE {r.code : r \in {x \in RowSet(answer) : x.days >= min_days}}

\* init_half_year_high, lines 64-72.
init_half_year_high(answer) ==
    IF answer.raises THEN {} ELSE {str(c) : c \in RowSet(answer)}

\* init_fund_flow_cache, lines 75-100: the dict is cleared first, then filled
\* row by row under the zero-padded code.
init_fund_flow_cache(answer) ==
    LET n == Len(answer.rows)
        key(i) == zfill(str(answer.rows[i].code), 6)
        F[i \in 0..n] ==
            IF i = 0 THEN NoDict
            ELSE [k \in DOMAIN F[i - 1] \cup {key(i)} |->
                     IF k = key(i) THEN FundFlow(answer.rows[i].cum_turnover)
                     ELSE F[i - 1][k]]
    IN IF answer.raises THEN NoDict ELSE F[n]

\* Industries as the upstream names them.
Bank == "bank"
Semiconductor == "semiconductor"
Steel == "steel"

\* line 397: 国防, 军工, 钢铁, 贵金属 (in English here).
IndustryBlacklist == {"defence", "military", "steel", "precious metal"}

\* lines 387-391: the funds filter; a code without a quote row has NaN in the
\* merged columns and fails every comparison.
PassesFundsFilter(quotes, code) ==
    /\ code \in DOMAIN quotes
    /\ quotes[code].price * 100 * 3 <= MAX_FUNDS
    /\ quotes[code].price >= 5
    /\ quotes[code].amount >= 5

\* Faulty variant of the exclusion set: the blacklist is left out.
ExcludedCodesWithoutBlacklist(st_codes, suspension_codes, high, blacklist) ==
    st_codes \cup suspension_codes \cup high

\* lines 373-378: excluded_codes.
ExcludedCodes(st_codes, suspension_codes, high, blacklist) ==
    st_codes \cup suspension_codes \cup high \cup {str(c) : c \in blacklist}

\* load_filter_lists, lines 352-401.  ranking, st and susp are the answers of
\* the three upstream calls, industry_answer the answer of every industry
\* lookup the call makes.  The order of the rows and their multiplicity are
\* kept (the left merge on the unique keys of QUOTE_DICT adds no row).  With an
\* empty QUOTE_DICT the merged frame has no column 最新价 and line 388 raises
\* KeyError.
load_filter_lists(ranking, st, susp, industry_answer, quotes, high, blacklist, info) ==
    LET st_codes == IF st.raises THEN {} ELSE {str(c) : c \in RowSet(st)}
        suspension_codes == IF susp.raises THEN {} ELSE {str(c) : c \in RowSet(susp)}
        masked == SelectSeq(ranking.rows, LAMBDA code : ~MaskedPrefix(code))
        excluded_codes == ExcludedCodes(st_codes, suspension_codes, high, blacklist)
        kept == SelectSeq(masked, LAMBDA code : code \notin excluded_codes)
        funded == SelectSeq(kept, LAMBDA code : PassesFundsFilter(quotes, code))
        Lookup[i \in 0..Len(funded)] ==
            IF i = 0 THEN [info |-> info, industries |-> NoDict]
            ELSE LET r == get_industry_from_cache(Lookup[i - 1].info, funded[i], industry_answer)
                     m == Lookup[i - 1].industries
                 IN  [info |-> r.info,
                      industries |-> [k \in DOMAIN m \cup {funded[i]} |->
                                         IF k = funded[i] THEN r.industry ELSE m[k]]]
        looked_up == Lookup[Len(funded)]
        industries == looked_up.industries
        stock_list_out ==
            SelectSeq(funded, LAMBDA code : ~is_industry(industries[code], IndustryBlacklist))
    IN  IF ranking.raises \/ DOMAIN quotes = {}
        THEN [raises |-> TRUE, list |-> << >>, info |-> info,
              st_codes |-> {}, suspension_codes |-> {}]
        ELSE [raises |-> FALSE, list |-> stock_list_out, info |-> looked_up.info,
              st_codes |-> st_codes, suspension_codes |-> suspension_codes]

(***************************************************************************)
(* pick_stocks_multithread and the post-processing of __main__             *)
(* (src/selectStocks.py).                                                  *)
(***************************************************************************)
MaxList == 3
MaxWorkers == 2

\* The values of the column 总分 that occur.
Scores == {40, 60}

\* The upstream ranking ak.stock_rank_xstp_ths: any list of codes.
Rankings == UNION {[1..n -> Codes \cup {ChiNext}] : n \in 0..MaxList}

\* What one call of check_stock does: it returns None (lines 435-436, 445-446:
\* the gates), it returns the row of lines 460-471, or an exception leaves it
\* (the scoring functions index the history frame without a guard, e.g. line
\* 606).  Which of the last two, and the score, hang on the answers of upstream.
Pending == [kind |-> "pending", score |-> 0]
ReturnsNone == [kind |-> "none", score |-> 0]
Raises == [kind |-> "raise", score |-> 0]
ReturnsRow(s) == [kind |-> "row", score |-> s]
CheckStockOutcomes == {ReturnsNone, Raises} \cup {ReturnsRow(s) : s \in Scores}

Row(code, s) == [code |-> code, score |-> s]

Tasks == DOMAIN task

\* The work items that occupy a worker thread: check_stock is running, or is
\* blocked for ever in an upstream call ("hung").
Running == {i \in Tasks : task[i] \in {"running", "hung"}}

\* Faulty variant of the barrier: futures not yet started are not waited for.
AllStartedCollected == \A i \in Tasks : task[i] \in {"queued", "collected"}
\* The as_completed loop of lines 482-485 is exhausted: every future yielded.
AllCollected == \A i \in Tasks : task[i] = "collected"

\* picked.drop_duplicates(subset="代码"): keep="first".
DropDuplicatesCode(df) ==
    LET keep(i) == \A j \in 1..(i - 1) : df[j].code # df[i].code
        F[i \in 0..Len(df)] ==
            IF i = 0 THEN << >>
            ELSE IF keep(i) THEN Append(F[i - 1], df[i]) ELSE F[i - 1]
    IN F[Len(df)]

\* Insert row r into the score-descending s after every row of score >= r.score.
InsertByScoreDesc(s, r) ==
    LET n == Cardinality({i \in 1..Len(s) : s[i].score >= r.score})
    IN SubSeq(s, 1, n) \o <<r>> \o SubSeq(s, n + 1, Len(s))

\* Faulty variant of the sort: ascending.
InsertByScoreAsc(s, r) ==
    LET n == Cardinality({i \in 1..Len(s) : s[i].score <= r.score})
    IN SubSeq(s, 1, n) \o <<r>> \o SubSeq(s, n + 1, Len(s))

SortValuesTotalAsc(df) ==
    LET F[i \in 0..Len(df)] ==
            IF i = 0 THEN << >> ELSE InsertByScoreAsc(F[i - 1], df[i])
    IN F[Len(df)]

\* picked.sort_values(by="总分", ascending=False): the key alone decides, rows of
\* equal 总分 come out in the order they went in.
SortValuesTotalDesc(df) ==
    LET F[i \in 0..Len(df)] ==
            IF i = 0 THEN << >> ELSE InsertByScoreDesc(F[i - 1], df[i])
    IN F[Len(df)]

\* lines 797-798 of __main__.
PostProcess(df) == SortValuesTotalDesc(DropDuplicatesCode(df))

\* The globals when the scan starts: a quote row and a fund flow row for every
\* main-board code, the turnover rate of a row at or just below the threshold
\* of its cap; the industries are cached.
ScanQuotes == {[k \in Codes |-> Quote(10, 5, t[k], 200)] : t \in [Codes -> {7, 8}]}

InitScan ==
    /\ HistIdle
    /\ stock_list = << >>
    /\ outcome = << >>
    /\ max_workers \in 1..MaxWorkers
    /\ task = << >>
    /\ results = << >>
    /\ pc = "start"
    /\ picked = << >>
    /\ QUOTE_DICT \in ScanQuotes
    /\ FUND_FLOW_DICT = [k \in Codes |-> FundFlow(24)]
    /\ INFO_CACHE = [k \in Codes |-> Bank]
    /\ HALF_YEAR_HIGH_SET = {}
    /\ ljqd_blacklist = {}
    /\ stock_data = << >>
    /\ op = NoOp

\* lines 475-479: load_filter_lists, then one submit per code of the list; an
\* exception of load_filter_lists leaves pick_stocks_multithread.
Submit ==
    /\ pc = "start"
    /\ \E ranking \in {Fails} \cup {Frame(codes) : codes \in Rankings},
          st \in {Fails, Frame(<< >>)}, susp \in {Fails, Frame(<< >>)} :
          \E r \in {load_filter_lists(ranking, st, susp, None, QUOTE_DICT,
                                      HALF_YEAR_HIGH_SET, ljqd_blacklist, INFO_CACHE)} :
              /\ INFO_CACHE' = r.info
              /\ stock_list' = r.list
              /\ task' = [i \in 1..Len(r.list) |-> "queued"]
              /\ outcome' = [i \in 1..Len(r.list) |-> Pending]
              /\ pc' = IF r.raises THEN "no_list" ELSE "collect"
    /\ UNCHANGED <<max_workers, results, picked>>
    /\ UNCHANGED histVars
    /\ UNCHANGED <<QUOTE_DICT, FUND_FLOW_DICT, HALF_YEAR_HIGH_SET, ljqd_blacklist,
                   stock_data, op>>

\* Faulty variant of the pool: no work item is started while a call hangs.
StartTaskUnlessHung(i) ==
    /\ task[i] = "queued"
    /\ \A j \in 1..(i - 1) : task[j] # "queued"
    /\ Cardinality(Running) < max_workers
    /\ \A j \in Tasks : task[j] # "hung"
    /\ task' = [task EXCEPT ![i] = "running"]
    /\ UNCHANGED <<stock_list, outcome, max_workers, results, pc, picked>>
    /\ UNCHANGED histVars
    /\ UNCHANGED screenVars

\* A free worker of the pool takes the oldest queued work item.
StartTask(i) ==
    /\ task[i] = "queued"
    /\ \A j \in 1..(i - 1) : task[j] # "queued"
    /\ Cardinality(Running) < max_workers
    /\ task' = [task EXCEPT ![i] = "running"]
    /\ UNCHANGED <<stock_list, outcome, max_workers, results, pc, picked>>
    /\ UNCHANGED histVars
    /\ UNCHANGED screenVars

\* check_stock(code) ends in its worker: the future holds a value or an exception.
FinishTask(i) ==
    /\ task[i] = "running"
    /\ \E o \in CheckStockOutcomes :
          /\ (o = ReturnsNone) <=> ~PassesGates(QUOTE_DICT, FUND_FLOW_DICT, stock_list[i])
          /\ outcome' = [outcome EXCEPT ![i] = o]
    /\ task' = [task EXCEPT ![i] = "finished"]
    /\ UNCHANGED <<stock_list, max_workers, results, pc, picked>>
    /\ UNCHANGED histVars
    /\ UNCHANGED screenVars

\* lines 482-485: as_completed yields a finished future; future.result() returns
\* the value, or raises the exception of the task in the main thread.
Collect(i) ==
    /\ pc = "collect"
    /\ task[i] = "finished"
    /\ task' = [task EXCEPT ![i] = "collected"]
    /\ IF outcome[i].kind = "raise"
       THEN /\ pc' = "raised"
            /\ UNCHANGED results
       ELSE /\ pc' = pc
            /\ results' = IF outcome[i].kind = "row"
                          THEN Append(results, Row(stock_list[i], outcome[i].score))
                          ELSE results
    /\ UNCHANGED <<stock_list, outcome, max_workers, picked>>
    /\ UNCHANGED histVars
    /\ UNCHANGED screenVars

\* lines 478, 487: the loop is over, the with block is left, the frame returned.
Return ==
    /\ pc = "collect"
    /\ AllCollected
    /\ picked' = results
    /\ pc' = "returned"
    /\ UNCHANGED <<stock_list, outcome, max_workers, task, results>>
    /\ UNCHANGED histVars
    /\ UNCHANGED screenVars

\* line 478: the exception leaves the with block, whose exit waits for every work
\* item (shutdown(wait=True)); then it leaves pick_stocks_multithread and, not
\* caught at line 796, ends the run.
Abort ==
    /\ pc = "raised"
    /\ \A i \in Tasks : task[i] \in {"finished", "collected"}
    /\ pc' = "aborted"
    /\ UNCHANGED <<stock_list, outcome, max_workers, task, results, picked>>
    /\ UNCHANGED histVars
    /\ UNCHANGED screenVars

\* lines 797-798: dedup and sort; pd.DataFrame([]) has no column at all, and
\* sort_values(by="总分") raises KeyError on it.
Rank ==
    /\ pc = "returned"
    /\ IF picked = << >>
       THEN /\ pc' = "crashed"
            /\ UNCHANGED picked
       ELSE /\ pc' = "done"
            /\ picked' = PostProcess(picked)
    /\ UNCHANGED <<stock_list, outcome, max_workers, task, results>>
    /\ UNCHANGED histVars
    /\ UNCHANGED screenVars

NextScan ==
    \/ Submit
    \/ \E i \in Tasks : StartTask(i)
    \/ \E i \in Tasks : FinishTask(i)
    \/ \E i \in Tasks : Collect(i)
    \/ Return
    \/ Abort
    \/ Rank

SpecScan == InitScan /\ [][NextScan]_vars

(***************************************************************************)
(* Properties of the scan and of the ranking, checked under SpecScan.      *)
(***************************************************************************)
Count(df, r) == Cardinality({k \in 1..Len(df) : df[k] = r})

RowTasks == {i \in Tasks : outcome[i].kind = "row"}

TaskRow(i) == Row(stock_list[i], outcome[i].score)

\* The rows of the tasks that produced one, in the order of submission.
RowsFrom(i) ==
    LET F[k \in 0..Len(stock_list)] ==
            IF k = 0 THEN << >>
            ELSE IF k \in RowTasks THEN Append(F[k - 1], TaskRow(k)) ELSE F[k - 1]
    IN F[i]

\* C6: an exception of one check_stock task does not abort the scan.
TaskExceptionDoesNotAbortScan == pc \notin {"raised", "aborted"}

\* C7: the list submitted to the pool never holds the same symbol twice.
NoSymbolSubmittedTwice ==
    \A i, j \in 1..Len(stock_list) : i # j => stock_list[i] # stock_list[j]

\* C8: when pick_stocks_multithread has returned, every submitted task has
\* completed and the frame returned holds exactly the rows of the tasks that
\* produced one, each once per such task.
ReturnedAfterAllTasks ==
    pc = "returned" =>
        /\ \A i \in Tasks : task[i] = "collected" /\ outcome[i] # Pending
        /\ Len(picked) = Cardinality(RowTasks)
        /\ \A i \in RowTasks :
              Count(picked, TaskRow(i)) = Cardinality({j \in RowTasks : TaskRow(j) = TaskRow(i)})

\* C8 witness: a scan has returned rows while another task had no result.
ReturnedWithRowsAndNone ==
    /\ pc = "returned"
    /\ picked # << >>
    /\ \E i \in Tasks : outcome[i].kind = "none"

\* check_stock gave the same outcome whenever it was given the same symbol.
FixedInputs ==
    \A i, j \in Tasks : stock_list[i] = stock_list[j] => outcome[i] = outcome[j]

\* C9: with fixed inputs the ranked list is the one of the run that collects
\* the results in submission order, whatever the pool size and the completion
\* order were.
RankingIndependentOfCompletionOrder ==
    (pc = "done" /\ FixedInputs) => picked = PostProcess(RowsFrom(Len(stock_list)))

\* C10: the ranked list holds each symbol of the result list exactly once and
\* is in non-increasing order of total score.
RankedOncePerSymbolDescending ==
    pc = "done" =>
        /\ \A k \in 1..Len(results) :
              Cardinality({m \in 1..Len(picked) : picked[m].code = results[k].code}) = 1
        /\ RowsOf(picked) \subseteq RowsOf(results)
        /\ \A m \in 1..(Len(picked) - 1) : picked[m].score >= picked[m + 1].score

\* C10 witness: ranked, from a result list holding a symbol twice with two scores.
RankedFromDuplicates ==
    /\ pc = "done"
    /\ \E k, m \in 1..Len(results) :
          results[k].code = results[m].code /\ results[k].score # results[m].score

(***************************************************************************)
(* check_stock, calculate_total_score and get_dynamic_turnover_threshold   *)
(* as functions of the module globals and of their arguments: the globals  *)
(* start at any value of a small set, as a caller of the module may set    *)
(* them; the history file of the symbol is the one of the history model.   *)
(***************************************************************************)
CheckCode == "000001"

TurnoverRates == {7, 8}
FreeFloatCaps == {200}
CumTurnovers == {23, 24}
BoundaryCaps == {0, 49, 50, 51, 199, 200, 201}
SyntheticScores == {10 * k : k \in -5..15}

\* Indicators of a sound issuer.
Sound == [missing |-> FALSE, net_profit |-> 1, roe |-> 13, gross_margin |-> 20,
          net_profit_growth |-> 10, revenue_growth |-> 10, debt_ratio |-> 40,
          current_ratio |-> 120, pe_ratio |-> 0]
FundamentalAnswers == {NoData, Sound}

QuoteDicts ==
    {NoDict} \cup {[k \in {CheckCode} |-> Quote(10, 5, t, c)] :
                       t \in TurnoverRates, c \in FreeFloatCaps}

FundFlowDicts ==
    {NoDict} \cup {[k \in {CheckCode} |-> FundFlow(x)] : x \in CumTurnovers}

InitCheck ==
    /\ HistIdle
    /\ ScanIdle
    /\ QUOTE_DICT \in QuoteDicts
    /\ FUND_FLOW_DICT \in FundFlowDicts
    /\ INFO_CACHE \in {NoDict, [k \in {CheckCode} |-> Bank]}
    /\ HALF_YEAR_HIGH_SET = {}
    /\ ljqd_blacklist = {}
    /\ stock_data = << >>
    /\ op = NoOp

\* One call check_stock(code).
CheckStock(code) ==
    \E industry_answer \in {Semiconductor, None},
       fundamental_data \in FundamentalAnswers,
       up \in Upstream(today, FetchRange(LoadCache(cache_file), today - 180, today, today)) :
        \E r \in {check_stock(QUOTE_DICT, FUND_FLOW_DICT, INFO_CACHE, cache_file, today,
                              code, industry_answer, fundamental_data, up)} :
            /\ INFO_CACHE' = r.info
            /\ cache_file' = r.file
            /\ op' = [NoOp EXCEPT !.name = "check_stock", !.ret = r.ret, !.steps = r.steps,
                                  !.fundamental_score = r.fundamental_score,
                                  !.technical_score = r.technical_score,
                                  !.total_score = r.total_score, !.bars = r.bars,
                                  !.missing = fundamental_data.missing]
            /\ h' = NoCall
            /\ UNCHANGED <<today, cache_dir, writes, timerVars, QUOTE_DICT, FUND_FLOW_DICT,
                           HALF_YEAR_HIGH_SET, ljqd_blacklist, stock_data>>
            /\ UNCHANGED scanVars

\* One call calculate_total_score(f, t) with synthetic sub-scores.
TotalScore ==
    \E f \in SyntheticScores, t \in SyntheticScores :
        /\ op' = [NoOp EXCEPT !.name = "calculate_total_score", !.args = <<f, t>>,
                              !.value = calculate_total_score(f, t)]
        /\ UNCHANGED <<QUOTE_DICT, FUND_FLOW_DICT, INFO_CACHE, HALF_YEAR_HIGH_SET,
                       ljqd_blacklist, stock_data>>
        /\ UNCHANGED histVars
        /\ UNCHANGED scanVars

\* One call get_dynamic_turnover_threshold(cap).
TurnoverThreshold ==
    \E cap \in BoundaryCaps :
        /\ op' = [NoOp EXCEPT !.name = "get_dynamic_turnover_threshold", !.args = <<cap>>,
                              !.value = get_dynamic_turnover_threshold(cap)]
        /\ UNCHANGED <<QUOTE_DICT, FUND_FLOW_DICT, INFO_CACHE, HALF_YEAR_HIGH_SET,
                       ljqd_blacklist, stock_data>>
        /\ UNCHANGED histVars
        /\ UNCHANGED scanVars

NextCheck == CheckStock(CheckCode) \/ NextDay

SpecCheck == InitCheck /\ [][NextCheck]_vars

InitScore ==
    /\ HistIdle
    /\ ScanIdle
    /\ ScreenIdle

NextScore == TotalScore \/ TurnoverThreshold

SpecScore == InitScore /\ [][NextScore]_vars

(***************************************************************************)
(* Properties of check_stock (under SpecCheck) and of the two pure scoring *)
(* helpers (under SpecScore).                                              *)
(***************************************************************************)
\* The three conditions on the globals under which a symbol may be scored.
GatesCleared(code) ==
    /\ code \in DOMAIN QUOTE_DICT
    /\ code \in DOMAIN FUND_FLOW_DICT
    /\ LET thr == IF QUOTE_DICT[code].free_float_mkt_cap <= 50 THEN 15
                  ELSE IF QUOTE_DICT[code].free_float_mkt_cap <= 200 THEN 8 ELSE 3
       IN /\ QUOTE_DICT[code].turnover_rate >= thr
          /\ FUND_FLOW_DICT[code].cum_turnover >= 3 * thr

\* C11: check_stock returns a row only for a symbol that has a quote entry, a
\* quote turnover rate >= the dynamic threshold of its free-float cap and a
\* cumulative turnover >= 3 times that threshold; otherwise it returns None
\* and no industry lookup and no scoring step has run (INFO_CACHE and the
\* history file are as before).
ScoredOnlyPastTheGates ==
    [][op'.name = "check_stock"
         => /\ op'.ret = "row" => GatesCleared(CheckCode)
            /\ ~GatesCleared(CheckCode)
                   => /\ op'.ret = None
                      /\ op'.steps = << >>
                      /\ INFO_CACHE' = INFO_CACHE
                      /\ cache_file' = cache_file]_vars

\* C11 witness: check_stock returned a row, after the industry lookup and the
\* scoring steps.
RowReturnedPastTheGates ==
    /\ op.name = "check_stock"
    /\ op.ret = "row"
    /\ Len(op.steps) = 4

\* C12: for a symbol past the gates check_stock always returns a row, with a
\* technical score of 0 when the history has fewer than 60 bars and a
\* fundamental score of 0 when the fundamental data is missing.
PastTheGatesAlwaysScored ==
    (op.name = "check_stock" /\ op.steps # << >>)
        => /\ op.ret = "row"
           /\ op.bars < 60 => op.technical_score = 0
           /\ op.missing => op.fundamental_score = 0

\* C17: the total score is within [0, 100] for all sub-scores passed in.
TotalScoreWithinBounds ==
    op.name = "calculate_total_score" => (0 <= op.value /\ op.value <= 100 * 100)

\* C18: a cap <= 50e8 gives 0.15, a cap in (50e8, 200e8] gives 0.08, a cap above
\* 200e8 gives 0.03.
ThresholdBoundariesInclusive ==
    op.name = "get_dynamic_turnover_threshold"
        => LET cap == op.args[1]
           IN /\ cap <= 50 => op.value = 15
              /\ (50 < cap /\ cap <= 200) => op.value = 8
              /\ cap > 200 => op.value = 3

\* C18 witness: the threshold was asked for a cap of exactly 200e8.
ThresholdAtUpperBoundary ==
    /\ op.name = "get_dynamic_turnover_threshold"
    /\ op.args = <<200>>
    /\ op.value = 8

(***************************************************************************)
(* The reference loaders and load_filter_lists as operations on the module *)
(* globals; each may be called again in the same process.                  *)
(***************************************************************************)
\* Frames of codes: the symbol 000001 comes as the int64 1.
HighFrames == {Fails, Frame(<< >>), Frame(<<StrCell("600000")>>),
               Frame(<<IntCell("1")>>)}
StFrames == {Fails, Frame(<< >>), Frame(<<StrCell("600000")>>)}
SuspendFrames == {Fails, Frame(<<StrCell("000001")>>)}

LjqdRow(cell, days) == [code |-> cell, days |-> days]
LjqdFrames == {Fails, Frame(<< >>), Frame(<<LjqdRow(StrCell("600000"), 3)>>),
               Frame(<<LjqdRow(IntCell("1"), 3), LjqdRow(StrCell("600000"), 2)>>)}

FundFlowRow(cell, cum) == [code |-> cell, cum_turnover |-> cum]
FundFlowFrames == {Fails, Frame(<<FundFlowRow(IntCell("1"), 24)>>),
                   Frame(<<FundFlowRow(StrCell("600000"), 23),
                           FundFlowRow(StrCell("600000"), 24)>>)}

RefRankings ==
    {Fails, Frame(<<"000001", "600000">>)}
        \cup {Frame(<<m, "000001", "600000">>) : m \in MaskedCodes}

\* The quote rows init_quote_dict builds (turnover rate and free-float cap 0).
BuiltQuotes == [k \in Codes |-> Quote(10, 5, 0, 0)]

InitRef ==
    /\ HistIdle
    /\ ScanIdle
    /\ QUOTE_DICT \in {NoDict, BuiltQuotes}
    /\ FUND_FLOW_DICT = NoDict
    /\ INFO_CACHE = [k \in DOMAIN QUOTE_DICT \cap {"000001"} |-> Bank]
    /\ HALF_YEAR_HIGH_SET = {}
    /\ ljqd_blacklist = {}
    /\ stock_data = << >>
    /\ op = NoOp

Outcome(answer) == IF answer.raises THEN "raise" ELSE "ok"

InitFundFlowCache ==
    \E answer \in FundFlowFrames :
        /\ FUND_FLOW_DICT' = init_fund_flow_cache(answer)
        /\ op' = [NoOp EXCEPT !.name = "init_fund_flow_cache", !.ret = Outcome(answer)]
        /\ UNCHANGED <<QUOTE_DICT, INFO_CACHE, HALF_YEAR_HIGH_SET, ljqd_blacklist, stock_data>>
        /\ UNCHANGED histVars
        /\ UNCHANGED scanVars

InitHalfYearHigh ==
    \E answer \in HighFrames :
        /\ HALF_YEAR_HIGH_SET' = init_half_year_high(answer)
        /\ op' = [NoOp EXCEPT !.name = "init_half_year_high", !.ret = Outcome(answer)]
        /\ UNCHANGED <<QUOTE_DICT, FUND_FLOW_DICT, INFO_CACHE, ljqd_blacklist, stock_data>>
        /\ UNCHANGED histVars
        /\ UNCHANGED scanVars

LoadLjqdBlacklist ==
    \E answer \in LjqdFrames :
        /\ ljqd_blacklist' = load_ljqd_blacklist(ljqd_blacklist, answer, 3)
        /\ op' = [NoOp EXCEPT !.name = "load_ljqd_blacklist", !.ret = Outcome(answer)]
        /\ UNCHANGED <<QUOTE_DICT, FUND_FLOW_DICT, INFO_CACHE, HALF_YEAR_HIGH_SET, stock_data>>
        /\ UNCHANGED histVars
        /\ UNCHANGED scanVars

\* One call load_filter_lists(strategy).
LoadFilterLists ==
    \E ranking \in RefRankings, st \in StFrames, susp \in SuspendFrames,
       industry_answer \in {Steel, None} :
        \E r \in {load_filter_lists(ranking, st, susp, industry_answer, QUOTE_DICT,
                                    HALF_YEAR_HIGH_SET, ljqd_blacklist, INFO_CACHE)} :
            /\ INFO_CACHE' = r.info
            /\ op' = [NoOp EXCEPT !.name = "load_filter_lists",
                                  !.ret = IF r.raises THEN "raise" ELSE "list",
                                  !.list = r.list,
                                  !.st_codes = r.st_codes,
                                  !.suspension_codes = r.suspension_codes,
                                  !.args = ranking.rows,
                                  !.raised = {"st" : x \in {1} \cap {IF st.raises THEN 1 ELSE 0}}
                                      \cup {"suspension" : x \in {1} \cap {IF susp.raises THEN 1 ELSE 0}}
                                      \cup {"ranking" : x \in {1} \cap {IF ranking.raises THEN 1 ELSE 0}}]
            /\ UNCHANGED <<QUOTE_DICT, FUND_FLOW_DICT, HALF_YEAR_HIGH_SET, ljqd_blacklist,
                           stock_data>>
            /\ UNCHANGED histVars
            /\ UNCHANGED scanVars

NextRef == InitFundFlowCache \/ InitHalfYearHigh \/ LoadLjqdBlacklist \/ LoadFilterLists

SpecRef == InitRef /\ [][NextRef]_vars

(***************************************************************************)
(* Properties of the reference loaders and of load_filter_lists, checked   *)
(* under SpecRef.                                                          *)
(***************************************************************************)
\* C13: when the upstream call of a loader raises, the structure of that loader
\* is empty afterwards, the other structures are untouched, and a
\* load_filter_lists whose ST or suspension call raised still returns a list.
FailedLoaderLeavesItsStructureEmpty ==
    [][/\ (op'.name = "init_fund_flow_cache" /\ op'.ret = "raise")
             => /\ DOMAIN FUND_FLOW_DICT' = {}
                /\ UNCHANGED <<HALF_YEAR_HIGH_SET, ljqd_blacklist>>
       /\ (op'.name = "init_half_year_high" /\ op'.ret = "raise")
             => /\ HALF_YEAR_HIGH_SET' = {}
                /\ UNCHANGED <<FUND_FLOW_DICT, ljqd_blacklist>>
       /\ (op'.name = "load_ljqd_blacklist" /\ op'.ret = "raise")
             => /\ ljqd_blacklist' = {}
                /\ UNCHANGED <<FUND_FLOW_DICT, HALF_YEAR_HIGH_SET>>
       /\ (/\ op'.name = "load_filter_lists"
           /\ "ranking" \notin op'.raised
           /\ DOMAIN QUOTE_DICT # {})
             => /\ op'.ret = "list"
                /\ "st" \in op'.raised => op'.st_codes = {}
                /\ "suspension" \in op'.raised => op'.suspension_codes = {}]_vars

\* C15: the list load_filter_lists returns holds no code that starts with 300,
\* 301, 688, 689 or 8 and no code that is in the ST set, the suspension set,
\* the new-high set or the blacklist.
NoMaskedOrListedCodeReturned ==
    (op.name = "load_filter_lists" /\ op.ret = "list")
        => \A i \in 1..Len(op.list) :
              LET code == op.list[i]
              IN /\ SubSeq(code, 1, 3) \notin {"300", "301", "688", "689"}
                 /\ SubSeq(code, 1, 1) # "8"
                 /\ code \notin op.st_codes
                 /\ code \notin op.suspension_codes
                 /\ code \notin HALF_YEAR_HIGH_SET
                 /\ \A c \in ljqd_blacklist : str(c) # code

\* C15 witness: from a ranking that held a code of the prefix 8 and two
\* main-board codes, one of them in the ST set, the other one was returned.
MaskedAndListedCodesDropped ==
    /\ op.name = "load_filter_lists"
    /\ op.args = <<"830001", "000001", "600000">>
    /\ "600000" \in op.st_codes
    /\ op.list = <<"000001">>

Digits == {"0", "1", "2", "3", "4", "5", "6", "7", "8", "9"}

Canonical(s) == Len(s) = 6 /\ \A i \in 1..6 : SubSeq(s, i, i) \in Digits

\* C16: every key of QUOTE_DICT, FUND_FLOW_DICT and INFO_CACHE and every member
\* of the new-high set, the blacklist and the ST and suspension sets is a
\* six-digit zero-padded string, and no code is returned by load_filter_lists
\* whose symbol an exclusion set holds in another format.
EveryStoredKeyCanonical ==
    /\ \A k \in DOMAIN QUOTE_DICT \cup DOMAIN FUND_FLOW_DICT \cup DOMAIN INFO_CACHE
                    \cup HALF_YEAR_HIGH_SET \cup op.st_codes \cup op.suspension_codes :
          Canonical(k)
    /\ \A c \in ljqd_blacklist : ~c.int /\ Canonical(c.text)
    /\ (op.name = "load_filter_lists" /\ op.ret = "list")
          => \A i \in 1..Len(op.list) :
                /\ \A k \in HALF_YEAR_HIGH_SET : zfill(k, 6) # op.list[i]
                /\ \A c \in ljqd_blacklist : zfill(c.text, 6) # op.list[i]

(***************************************************************************)
(* The table stock_data and init_quote_dict (src/db_utils.py,              *)
(* src/selectStocks.py).  The table is a list of rows [ts_code,            *)
(* trade_date, close]; its primary key is (ts_code, trade_date).           *)
(***************************************************************************)
DataRow(ts_code, trade_date, close) ==
    [ts_code |-> ts_code, trade_date |-> trade_date, close |-> close]

SameKey(r1, r2) == r1.ts_code = r2.ts_code /\ r1.trade_date = r2.trade_date

\* Faulty variant of the statement: a plain INSERT.
InsertRow(table, row, update_columns) == Append(table, row)

\* INSERT ... ON DUPLICATE KEY UPDATE of one record (line 107): a row of the
\* same primary key takes the values of the update columns, else the record is
\* added.
InsertOnDuplicateKeyUpdate(table, row, update_columns) ==
    IF \E i \in 1..Len(table) : SameKey(table[i], row)
    THEN [i \in 1..Len(table) |->
             IF SameKey(table[i], row)
             THEN [table[i] EXCEPT !.close = IF "close" \in update_columns
                                             THEN row.close ELSE @]
             ELSE table[i]]
    ELSE Append(table, row)

Columns == <<"ts_code", "trade_date", "close">>

\* DbUtils.upsert_df, lines 82-114, with update_columns left to its default.
\* df is None or a sequence of rows.
upsert_df(table, df, key_columns) ==
    LET keys == {key_columns[i] : i \in 1..Len(key_columns)}
        update_columns == {Columns[i] : i \in 1..Len(Columns)} \ keys
        F[i \in 0..Len(df.rows)] ==
            IF i = 0 THEN table
            ELSE InsertOnDuplicateKeyUpdate(F[i - 1], df.rows[i], update_columns)
    IN  IF df.none \/ df.rows = << >> THEN [raises |-> FALSE, table |-> table]
        ELSE IF key_columns = << >> THEN [raises |-> TRUE, table |-> table]
        ELSE [raises |-> FALSE, table |-> F[Len(df.rows)]]

\* ts_code_to_code, lines 104-106: ts_code.split('.')[0].
ts_code_to_code(ts_code) ==
    LET dots == {i \in 1..Len(ts_code) : SubSeq(ts_code, i, i) = "."}
    IN IF dots = {} THEN ts_code ELSE SubSeq(ts_code, 1, MinOf(dots) - 1)

\* SELECT MAX(trade_date) ... WHERE ts_code = :ts_code (lines 242-246); 0 is NULL.
MaxTradeDate(table, ts_code) ==
    LET ds == {table[i].trade_date : i \in {j \in 1..Len(table) : table[j].ts_code = ts_code}}
    IN IF ds = {} THEN 0 ELSE MaxOf(ds)

\* The rows of the latest trade date of ts_code (lines 284-298).
LatestRows(table, ts_code) ==
    SelectSeq(table, LAMBDA r : r.ts_code = ts_code
                                /\ r.trade_date = MaxTradeDate(table, ts_code))

\* SELECT DISTINCT ts_code FROM stock_data (line 183), in the order of the table.
DistinctTsCodes(table) ==
    LET F[i \in 0..Len(table)] ==
            IF i = 0 THEN << >>
            ELSE IF \E j \in 1..Len(F[i - 1]) : F[i - 1][j].ts_code = table[i].ts_code
                 THEN F[i - 1]
                 ELSE Append(F[i - 1], [ts_code |-> table[i].ts_code, industry |-> ""])
    IN F[Len(table)]

\* The calendar: day 1 of the model is 2024-09-29, a Sunday, so that day 2
\* is the last day of a month; Epoch is the number of days from 1970-01-01
\* to day 0.
Epoch == 19994

\* date.strftime("%Y%m%d") and DATE_FORMAT(..., '%Y%m%d') of a day number, as
\* the number the eight digits spell (proleptic Gregorian calendar).
strftime(date) ==
    LET z == date + Epoch + 719468
        era == z \div 146097
        doe == z - era * 146097
        yoe == (doe - doe \div 1460 + doe \div 36524 - doe \div 146096) \div 365
        doy == doe - (365 * yoe + yoe \div 4 - yoe \div 100)
        mp == (5 * doy + 2) \div 153
        d == doy - (153 * mp + 2) \div 5 + 1
        m == IF mp < 10 THEN mp + 3 ELSE mp - 9
        y == yoe + era * 400 + (IF m <= 2 THEN 1 ELSE 0)
    IN y * 10000 + m * 100 + d

\* line 257: str(int(existing_end_date) + 1), on the eight digits.
NextFetchStart(existing_end_date) == existing_end_date + 1

\* The answer of pro.daily to a request from fetch_start to end_date (both
\* YYYYMMDD): a bar at close for every day of the range up to the last day
\* upstream has published, the range taken by comparing the digits.
DailyBars(daily, ts_code, fetch_start, end_date) ==
    LET F[d \in 0..daily.last] ==
            IF d = 0 THEN << >>
            ELSE IF fetch_start <= strftime(d) /\ strftime(d) <= end_date
                 THEN Append(F[d - 1], DataRow(ts_code, d, daily.close))
                 ELSE F[d - 1]
    IN F[daily.last]

\* Faulty variant of the quote entry: turnover rate and free-float market
\* capitalisation are filled in.
BuildQuoteWithTurnover(hist_df) == Quote(hist_df[Len(hist_df)].close, 5, 8, 200)

\* build_quote_dict_from_hist, lines 120-157, on a non-empty frame: price and
\* amount of the latest bar; 换手率 and 流通市值 are the literal 0 (lines 151-152).
build_quote_dict_from_hist(hist_df) == Quote(hist_df[Len(hist_df)].close, 5, 0, 0)

\* lines 239-314 for one row of the stock list, from the state s = [table,
\* quotes, requests].  The fetch starts the day after the latest stored bar, or
\* three years back when the table holds none; nothing is requested when the
\* latest stored bar is of today.  The quote entry is built from the latest bar
\* of the table (build_quote_dict_from_hist, lines 120-157).
CacheOneStock(s, ts_code, end_date, start_date, daily) ==
    LET max_date == MaxTradeDate(s.table, ts_code)
        existing_end_date == IF max_date # 0 THEN strftime(max_date) ELSE 0
        fetch_start == IF existing_end_date # 0 THEN NextFetchStart(existing_end_date)
                       ELSE start_date
        fetches == /\ (existing_end_date # 0 => existing_end_date < end_date)
                   /\ fetch_start <= end_date
        new_df == IF ~fetches \/ daily.raises THEN NoneFrame
                  ELSE DataFrame(DailyBars(daily, ts_code, fetch_start, end_date))
        written == upsert_df(s.table, new_df, <<"ts_code", "trade_date">>).table
        hist_df == LatestRows(written, ts_code)
        code == ts_code_to_code(ts_code)
    IN  [table |-> written,
         quotes |-> IF hist_df = << >> THEN s.quotes
                    ELSE [k \in DOMAIN s.quotes \cup {code} |->
                             IF k = code THEN build_quote_dict_from_hist(hist_df)
                             ELSE s.quotes[k]],
         requests |-> IF fetches THEN Append(s.requests, "daily") ELSE s.requests,
         fetches |-> IF fetches
                     THEN Append(s.fetches, [ts_code |-> ts_code,
                                             existing_end_date |-> existing_end_date,
                                             start_date |-> fetch_start,
                                             end_date |-> end_date])
                     ELSE s.fetches]

\* init_quote_dict, lines 159-325.  g holds the globals, table the table
\* stock_data; basic, st, daily, fund_flow, high and ljqd are the answers of
\* upstream, db_up tells whether the database answers the fallback query.
init_quote_dict(g, table, today_dt, basic, db_up, st, daily, fund_flow, high, ljqd) ==
    LET fallback == DistinctTsCodes(table)
        returns == basic.raises /\ (~db_up \/ fallback = << >>)
        stock_basic_df == IF basic.raises THEN fallback ELSE basic.rows
        st_codes == IF st.raises THEN {}
                    ELSE {ts_code_to_code(st.rows[i]) : i \in 1..Len(st.rows)}
        kept == SelectSeq(stock_basic_df,
                          LAMBDA r : ts_code_to_code(r.ts_code) \notin st_codes
                                     /\ ~MaskedPrefix(ts_code_to_code(r.ts_code)))
        named == {ts_code_to_code(kept[i].ts_code) :
                      i \in {j \in 1..Len(kept) : kept[j].industry # ""}}
        info == [k \in DOMAIN g.INFO_CACHE \cup named |->
                    IF k \in named
                    THEN (CHOOSE r \in {kept[i] : i \in 1..Len(kept)} :
                              ts_code_to_code(r.ts_code) = k /\ r.industry # "").industry
                    ELSE g.INFO_CACHE[k]]
        F[i \in 0..Len(kept)] ==
            IF i = 0
            THEN [table |-> table, quotes |-> NoDict, requests |-> <<"stock_basic", "stock_st">>,
                  fetches |-> << >>]
            ELSE CacheOneStock(F[i - 1], kept[i].ts_code, strftime(today_dt),
                               strftime(today_dt - 3 * 365), daily)
        done == F[Len(kept)]
    IN  IF returns
        THEN [returns |-> TRUE, table |-> table, requests |-> <<"stock_basic">>,
              fetches |-> << >>,
              QUOTE_DICT |-> g.QUOTE_DICT, INFO_CACHE |-> g.INFO_CACHE,
              FUND_FLOW_DICT |-> g.FUND_FLOW_DICT,
              HALF_YEAR_HIGH_SET |-> g.HALF_YEAR_HIGH_SET,
              ljqd_blacklist |-> g.ljqd_blacklist]
        ELSE [returns |-> FALSE, table |-> done.table,
              requests |-> done.requests \o <<"fund_flow", "cxg", "ljqd">>,
              fetches |-> done.fetches,
              QUOTE_DICT |-> done.quotes, INFO_CACHE |-> info,
              FUND_FLOW_DICT |-> init_fund_flow_cache(fund_flow),
              HALF_YEAR_HIGH_SET |-> init_half_year_high(high),
              ljqd_blacklist |-> load_ljqd_blacklist(g.ljqd_blacklist, ljqd, 3)]

(***************************************************************************)
(* A run of the program up to the filling of the pool: __main__ calls      *)
(* init_quote_dict and then pick_stocks_multithread; the table outlives    *)
(* the process, the globals do not.                                        *)
(***************************************************************************)
Ping == "000001.SZ"

BasicRow(ts_code, industry) == [ts_code |-> ts_code, industry |-> industry]
BasicFrames == {Fails, Frame(<<BasicRow(Ping, Bank)>>),
                Frame(<<BasicRow("300750.SZ", ""), BasicRow(Ping, "")>>)}
StockStFrames == {Fails, Frame(<< >>), Frame(<<Ping>>)}
DailyAnswers(t) ==
    {[raises |-> TRUE, close |-> NaN, last |-> 0]}
        \cup {[raises |-> FALSE, close |-> c, last |-> l] : c \in Closes, l \in {t - 1, t}}

FundFlowAnswers == {Fails, Frame(<<FundFlowRow(StrCell("000001"), 24)>>)}
HighAnswers == {Fails, Frame(<<StrCell("600000")>>)}
LjqdAnswers == {Fails, Frame(<<LjqdRow(StrCell("600000"), 3)>>)}

\* The frames db.upsert_df is called with: none, empty, one bar of today, or
\* two bars of one key and different closes.
UpsertFrames(t) ==
    {NoneFrame, DataFrame(<< >>)}
        \cup {DataFrame(<<DataRow(Ping, t, c)>>) : c \in Closes}
        \cup {DataFrame(<<DataRow(Ping, t, c), DataRow(Ping, t, 21 - c)>>) : c \in Closes}

Globals == [QUOTE_DICT |-> QUOTE_DICT, INFO_CACHE |-> INFO_CACHE,
            FUND_FLOW_DICT |-> FUND_FLOW_DICT, HALF_YEAR_HIGH_SET |-> HALF_YEAR_HIGH_SET,
            ljqd_blacklist |-> ljqd_blacklist]

InitQuote ==
    /\ HistIdle
    /\ stock_list = << >>
    /\ outcome = << >>
    /\ max_workers = 1
    /\ task = << >>
    /\ results = << >>
    /\ pc = "main"
    /\ picked = << >>
    /\ ScreenIdle

\* line 794 of __main__: init_quote_dict returns, line 796 is next.
InitQuoteDict ==
    /\ pc = "main"
    /\ \E basic \in BasicFrames, db_up \in BOOLEAN, st \in StockStFrames,
          daily \in DailyAnswers(today), fund_flow \in FundFlowAnswers,
          high \in HighAnswers, ljqd \in LjqdAnswers :
          \E r \in {init_quote_dict(Globals, stock_data, today, basic, db_up, st, daily,
                                    fund_flow, high, ljqd)} :
              /\ stock_data' = r.table
              /\ QUOTE_DICT' = r.QUOTE_DICT
              /\ INFO_CACHE' = r.INFO_CACHE
              /\ FUND_FLOW_DICT' = r.FUND_FLOW_DICT
              /\ HALF_YEAR_HIGH_SET' = r.HALF_YEAR_HIGH_SET
              /\ ljqd_blacklist' = r.ljqd_blacklist
              /\ op' = [NoOp EXCEPT !.name = "init_quote_dict",
                                    !.ret = IF r.returns THEN "return" ELSE "ok",
                                    !.value = today,
                                    !.requests = r.requests,
                                    !.fetches = r.fetches]
    /\ pc' = "start"
    /\ UNCHANGED <<stock_list, outcome, max_workers, task, results, picked>>
    /\ UNCHANGED histVars

\* The process ends and the program is started again.
NewRun ==
    /\ pc # "main"
    /\ pc' = "main"
    /\ stock_list' = << >>
    /\ outcome' = << >>
    /\ task' = << >>
    /\ QUOTE_DICT' = << >>
    /\ FUND_FLOW_DICT' = << >>
    /\ INFO_CACHE' = << >>
    /\ HALF_YEAR_HIGH_SET' = {}
    /\ ljqd_blacklist' = {}
    /\ op' = NoOp
    /\ UNCHANGED <<max_workers, results, picked, stock_data>>
    /\ UNCHANGED histVars

\* One call db.upsert_df(df, "stock_data", key_columns).
UpsertDf ==
    /\ pc = "main"
    /\ \E df \in UpsertFrames(today), key_columns \in {<< >>, <<"ts_code", "trade_date">>} :
          \E r \in {upsert_df(stock_data, df, key_columns)} :
              /\ stock_data' = r.table
              /\ op' = [NoOp EXCEPT !.name = "upsert_df",
                                    !.ret = IF r.raises THEN "raise" ELSE "ok",
                                    !.args = key_columns,
                                    !.df = df]
    /\ UNCHANGED <<QUOTE_DICT, FUND_FLOW_DICT, INFO_CACHE, HALF_YEAR_HIGH_SET, ljqd_blacklist>>
    /\ UNCHANGED histVars
    /\ UNCHANGED scanVars

NextQuote == InitQuoteDict \/ Submit \/ NewRun \/ NextDay

SpecQuote == InitQuote /\ [][NextQuote]_vars

\* The table under init_quote_dict and direct upserts.
NextDb == InitQuoteDict \/ UpsertDf \/ NewRun \/ NextDay

SpecDb == InitQuote /\ [][NextDb]_vars

(***************************************************************************)
(* Properties of the table and of init_quote_dict.                         *)
(***************************************************************************)
NoDuplicateKey(table) ==
    \A i, j \in 1..Len(table) : SameKey(table[i], table[j]) => i = j

\* The rows of df that are the last of their key in df.
LastWrites(df) ==
    {df.rows[i] : i \in {j \in 1..Len(df.rows) :
                            \A k \in (j + 1)..Len(df.rows) : ~SameKey(df.rows[j], df.rows[k])}}

UpsertStep == op'.name = "upsert_df"

\* C19: upsert_df is an idempotent keyed upsert.  The table never holds two
\* rows of one key (ts_code, trade_date), whatever upsert_df and
\* init_quote_dict write and however often they run in a day; after a write
\* the row of a key holds the values of the last record of that key and the
\* rows of the other keys are as before; the same call a second time leaves the
\* table as the first left it; a None or empty frame changes nothing and does
\* not raise; a non-empty frame without key_columns raises and changes nothing.
KeyedIdempotentUpsert ==
    [][/\ NoDuplicateKey(stock_data')
       /\ (UpsertStep /\ op'.ret = "ok" /\ op'.df.rows # << >>) =>
              /\ \A r \in LastWrites(op'.df) : \E i \in 1..Len(stock_data') : stock_data'[i] = r
              /\ \A i \in 1..Len(stock_data) :
                    (\A r \in LastWrites(op'.df) : ~SameKey(r, stock_data[i]))
                        => \E j \in 1..Len(stock_data') : stock_data'[j] = stock_data[i]
       /\ (UpsertStep /\ op.name = "upsert_df" /\ op'.df = op.df /\ op'.args = op.args) =>
              stock_data' = stock_data
       /\ (UpsertStep /\ (op'.df.none \/ op'.df.rows = << >>)) =>
              (stock_data' = stock_data /\ op'.ret = "ok")
       /\ (UpsertStep /\ op'.df.rows # << >> /\ op'.args = << >>) =>
              (stock_data' = stock_data /\ op'.ret = "raise")
      ]_vars

\* C19 witness: a frame of two records of one key went into a table that holds
\* bars of other days; the table holds the second record and not the first.
SecondRecordOfAKeyWon ==
    /\ op.name = "upsert_df"
    /\ op.ret = "ok"
    /\ Len(op.df.rows) = 2
    /\ Len(stock_data) >= 2
    /\ \E i \in 1..Len(stock_data) : stock_data[i] = op.df.rows[2]
    /\ \A i \in 1..Len(stock_data) : stock_data[i] # op.df.rows[1]

\* C20: a run of init_quote_dict that finds the bar of today of every stored
\* stock in the table issues no upstream call.
SameDayRunCallsNoUpstream ==
    [][(/\ pc = "main"
        /\ op'.name = "init_quote_dict"
        /\ stock_data # << >>
        /\ \A i \in 1..Len(stock_data) :
               MaxTradeDate(stock_data, stock_data[i].ts_code) = today)
       => op'.requests = << >>]_vars

\* C14: after an init_quote_dict that got the stock list neither from upstream
\* nor from the table, pick_stocks_multithread is not entered: load_filter_lists
\* is never called.
NoStockListStopsTheRun ==
    ~(/\ op.name = "init_quote_dict"
      /\ op.ret = "return"
      /\ pc \in {"no_list", "collect"})

(***************************************************************************)
(* parse_number (src/utils.py).  Texts are strings over a small alphabet;  *)
(* "W" stands for the character wan (1e4).  A value is m * 10^e.          *)
(***************************************************************************)
MaxText == 3

Alphabet == {"1", "%", "W", "+", "x", ",", " "}

RECURSIVE TextsOfLen(_)
TextsOfLen(n) ==
    IF n = 0 THEN {""} ELSE {t \o c : t \in TextsOfLen(n - 1), c \in Alphabet}

Texts == UNION {TextsOfLen(n) : n \in 0..MaxText}

Chars(s) == [i \in 1..Len(s) |-> SubSeq(s, i, i)]

RECURSIVE Join(_)
Join(cs) == IF cs = << >> THEN "" ELSE Head(cs) \o Join(Tail(cs))

\* str.replace(old, ""), old one character.
Remove(s, old) == Join(SelectSeq(Chars(s), LAMBDA c : c # old))

\* str.strip().
RECURSIVE strip(_)
strip(s) ==
    IF s = "" THEN s
    ELSE IF SubSeq(s, 1, 1) = " " THEN strip(SubSeq(s, 2, Len(s)))
    ELSE IF SubSeq(s, Len(s), Len(s)) = " " THEN strip(SubSeq(s, 1, Len(s) - 1))
    ELSE s

Value(m, e) == IF m = 0 THEN [m |-> 0, e |-> 0] ELSE [m |-> m, e |-> e]
Zero == Value(0, 0)
Inf == [m |-> 1, e |-> 999]

RECURSIVE DigitCount(_)
DigitCount(m) == IF m < 10 THEN 1 ELSE 1 + DigitCount(m \div 10)

\* A float above the largest double is inf.
Float(v) == IF v.e + DigitCount(v.m) > 309 THEN Inf ELSE v

Mul(a, b) == IF a = Inf \/ b = Inf THEN Inf ELSE Float(Value(a.m * b.m, a.e + b.e))

\* Float addition: a term more than four decimal orders below the other's last
\* digit is absorbed.
Add(a, b) ==
    LET hi == IF a.e >= b.e THEN a ELSE b
        lo == IF a.e >= b.e THEN b ELSE a
    IN  IF a = Inf \/ b = Inf THEN Inf
        ELSE IF lo.m = 0 THEN hi
        ELSE IF hi.m = 0 THEN lo
        ELSE IF hi.e - lo.e <= 4 THEN Value(hi.m * Pow(10, hi.e - lo.e) + lo.m, lo.e)
        ELSE hi

RECURSIVE PowMod(_, _, _)
PowMod(b, e, n) == IF e = 0 THEN 1 % n ELSE (b * PowMod(b, e - 1, n)) % n

\* a % b of two non-negative values, b # 0.
Mod(a, b) ==
    IF a.e >= b.e
    THEN Value(((a.m % b.m) * PowMod(10, a.e - b.e, b.m)) % b.m, b.e)
    ELSE IF b.e - a.e > 4 \/ b.m * Pow(10, b.e - a.e) > a.m THEN a
    ELSE Value(a.m % (b.m * Pow(10, b.e - a.e)), a.e)

Failed == [raises |-> TRUE, value |-> Zero]
Parsed(v) == [raises |-> FALSE, value |-> v]

\* float(text): surrounding blanks dropped, an optional sign, then digits.
float(text) ==
    LET t == strip(text)
        d == IF t # "" /\ SubSeq(t, 1, 1) = "+" THEN SubSeq(t, 2, Len(t)) ELSE t
        F[i \in 0..Len(d)] == IF i = 0 THEN 0 ELSE 10 * F[i - 1] + 1
    IN  IF d = "" \/ \E i \in 1..Len(d) : SubSeq(d, i, i) # "1" THEN Failed
        ELSE Parsed(Value(F[Len(d)], 0))

\* The tokens of the text after .replace(wan, "*1e4"): digits form a number,
\* "W" gives "*" and the number 1e4 whose exponent the digits that follow
\* extend, a blank ends a number, "x" starts a name.
Tokens(s) ==
    LET F[i \in 0..Len(s)] ==
            IF i = 0 THEN [toks |-> << >>, open |-> "no"]
            ELSE LET c == SubSeq(s, i, i)
                     p == F[i - 1]
                     n == Len(p.toks)
                 IN  IF c = "1"
                     THEN IF p.open = "mantissa"
                          THEN [toks |-> [p.toks EXCEPT ![n] = [kind |-> "num", m |-> 10 * @.m + 1, e |-> @.e]],
                                open |-> "mantissa"]
                          ELSE IF p.open = "exponent"
                          THEN [toks |-> [p.toks EXCEPT ![n] = [kind |-> "num", m |-> @.m, e |-> 10 * @.e + 1]],
                                open |-> "exponent"]
                          ELSE IF p.open = "name"
                          THEN p
                          ELSE [toks |-> Append(p.toks, [kind |-> "num", m |-> 1, e |-> 0]),
                                open |-> "mantissa"]
                     ELSE IF c = "W"
                     THEN [toks |-> p.toks \o <<[kind |-> "*", m |-> 0, e |-> 0],
                                                 [kind |-> "num", m |-> 1, e |-> 4]>>,
                           open |-> "exponent"]
                     ELSE IF c = " "
                     THEN [toks |-> p.toks, open |-> "no"]
                     ELSE IF c = "x"
                     THEN IF p.open = "name" THEN p
                          ELSE [toks |-> Append(p.toks, [kind |-> IF p.open = "no" THEN "name" ELSE "bad",
                                                         m |-> 0, e |-> 0]),
                                open |-> "name"]
                     ELSE [toks |-> Append(p.toks, [kind |-> c, m |-> 0, e |-> 0]), open |-> "no"]
    IN F[Len(s)].toks

\* eval(text) of an expression of numbers, names, unary and binary "+", "*"
\* and "%": a syntax error or an unknown name raises.
eval(text) ==
    LET toks == Tokens(text)
        Start == [ok |-> TRUE, operand |-> TRUE, sum |-> Zero, term |-> Zero, pending |-> "none"]
        F[i \in 0..Len(toks)] ==
            IF i = 0 THEN Start
            ELSE LET p == F[i - 1]
                     t == toks[i]
                     v == Float(Value(t.m, t.e))
                 IN  IF ~p.ok THEN p
                     ELSE IF p.operand
                     THEN IF t.kind = "+" THEN p
                          ELSE IF t.kind = "num"
                          THEN [p EXCEPT !.operand = FALSE,
                                         !.term = IF p.pending = "*" THEN Mul(p.term, v)
                                                  ELSE IF p.pending = "%" THEN Mod(p.term, v)
                                                  ELSE v,
                                         !.pending = "none"]
                          ELSE [p EXCEPT !.ok = FALSE]
                     ELSE IF t.kind = "+"
                          THEN [p EXCEPT !.operand = TRUE, !.sum = Add(p.sum, p.term),
                                         !.term = Zero]
                          ELSE IF t.kind \in {"*", "%"}
                          THEN [p EXCEPT !.operand = TRUE, !.pending = t.kind]
                          ELSE [p EXCEPT !.ok = FALSE]
        end == F[Len(toks)]
    IN  IF ~end.ok \/ end.operand THEN Failed ELSE Parsed(Add(end.sum, end.term))


NoneCell == [kind |-> "None", text |-> ""]
TextCell(t) == [kind |-> "str", text |-> t]

Result(raises, value, percent) == [raises |-> raises, value |-> value, percent |-> percent]

\* parse_number(s), lines 121-138: the value is value / 100 when percent.
\* Every exception inside the try gives 0.0.
parse_number(s) ==
    IF s.kind = "None" THEN Result(FALSE, Zero, FALSE)
    ELSE LET t == Remove(strip(s.text), ",")
             ends_percent == t # "" /\ SubSeq(t, Len(t), Len(t)) = "%"
             r == IF ends_percent THEN float(Remove(t, "%"))
                  ELSE IF \E i \in 1..Len(t) : SubSeq(t, i, i) = "W" THEN eval(t)
                  ELSE float(t)
         IN  IF r.raises THEN Result(FALSE, Zero, FALSE)
             ELSE Result(FALSE, r.value, ends_percent)

\* One call parse_number(s).
ParseNumber ==
    \E s \in {NoneCell} \cup {TextCell(t) : t \in Texts} :
        \E r \in {parse_number(s)} :
            /\ op' = [NoOp EXCEPT !.name = "parse_number", !.args = <<s>>,
                                  !.ret = IF r.raises THEN "raise" ELSE "value",
                                  !.value = r.value, !.missing = r.percent]
            /\ UNCHANGED <<QUOTE_DICT, FUND_FLOW_DICT, INFO_CACHE, HALF_YEAR_HIGH_SET,
                           ljqd_blacklist, stock_data>>
            /\ UNCHANGED histVars
            /\ UNCHANGED scanVars

NextParse == ParseNumber

SpecParse == InitScore /\ [][NextParse]_vars

\* A text that reads as a number: blanks and thousands separators aside, an
\* optional sign, digits, and at most one suffix "%" or "W".
ReadsAsNumber(text) ==
    LET t == Remove(Remove(text, ","), " ")
        u == IF t # "" /\ SubSeq(t, 1, 1) = "+" THEN SubSeq(t, 2, Len(t)) ELSE t
        d == IF u # "" /\ SubSeq(u, Len(u), Len(u)) \in {"%", "W"}
             THEN SubSeq(u, 1, Len(u) - 1) ELSE u
    IN d # "" /\ \A i \in 1..Len(d) : SubSeq(d, i, i) = "1"

\* C21: parse_number never raises, and returns 0.0 for None and for every text
\* that does not read as a number.
UnparseableTextYieldsZero ==
    op.name = "parse_number" =>
        /\ op.ret = "value"
        /\ (op.args[1].kind = "None" \/ ~ReadsAsNumber(op.args[1].text)) => op.value = Zero

(***************************************************************************)
(* Further properties of get_stock_history.                                *)
(***************************************************************************)
\* The call about to be recorded is a delta fetch: the cache starts at or
\* before start_date and ends before today.
DeltaCase ==
    /\ h'.op = "call"
    /\ h'.start <= h'.end
    /\ CacheDates # {}
    /\ MinOf(CacheDates \cup {MaxDay + 1}) <= h'.start
    /\ MaxOf(CacheDates \cup {0}) < today

\* C22: in the delta case the call asks upstream exactly the range from
\* cached_end + 1 to end_date and that range is never inverted; the fetched
\* bars are merged into the cache, saved, and the slice of [start_date,
\* end_date] is returned.
DeltaRangeNeverInverted ==
    [][DeltaCase =>
          /\ h'.req = <<[start |-> MaxOf(CacheDates \cup {0}) + 1, end |-> h'.end]>>
          /\ h'.req[1].start <= h'.req[1].end
          /\ h'.new # << >> =>
                /\ RowsOf(h'.new) \subseteq RowsOf(cache_file'.rows)
                /\ CacheDates \subseteq ColumnDates(cache_file'.rows)
          /\ h'.ret = CachedSlice(cache_file', h'.start, h'.end)]_vars

(***************************************************************************)
(* The scan with the workers running check_stock itself: each task reads   *)
(* the globals, looks up the industry, and has get_stock_history read and  *)
(* write the cache file of its code (src/selectStocks.py, src/api.py).     *)
(***************************************************************************)
NoFile == [exists |-> FALSE, rows |-> << >>]

\* lines 94-98 of api.py are reached: the call saves the merged frame.
Saves(file, today_dt, start_date, end_date, up) ==
    /\ ~CacheCovers(LoadCache(file), start_date, today_dt)
    /\ ~up.raises
    /\ DropNaClose(UpstreamRows(up)) # EmptyDataFrame

\* The answers of upstream to a worker: it raises, or it sends the bars of the
\* range asked, with or without the bar of today.
PoolAnswers(t, fetch) ==
    LET days == {d \in 1..t : fetch.start <= d /\ d <= fetch.end}
    IN {Raise} \cup {Answer(ds, [k \in ds |-> 10]) : ds \in {days, days \ {t}}}

InitPool ==
    /\ cache_file = NoFile
    /\ today = 2
    /\ h = NoCall
    /\ cache_dir = << >>
    /\ writes = {}
    /\ TimerIdle
    /\ stock_list = << >>
    /\ outcome = << >>
    /\ max_workers \in 1..MaxWorkers
    /\ task = << >>
    /\ results = << >>
    /\ pc = "start"
    /\ picked = << >>
    /\ QUOTE_DICT = [k \in Codes |-> Quote(10, 5, IF k = "000001" THEN 8 ELSE 7, 200)]
    /\ FUND_FLOW_DICT = [k \in Codes |-> FundFlow(24)]
    /\ INFO_CACHE = [k \in {"600000"} |-> Bank]
    /\ HALF_YEAR_HIGH_SET = {}
    /\ ljqd_blacklist = {}
    /\ stock_data = << >>
    /\ op = NoOp

\* check_stock(stock_list[i]) runs and ends in its worker.
WorkerCheckStock(i) ==
    /\ task[i] = "running"
    /\ \E file \in {Get(cache_dir, stock_list[i], NoFile)} :
       \E industry_answer \in {Semiconductor},
          fundamental_data \in {Sound},
          up \in PoolAnswers(today, FetchRange(LoadCache(file), today - 180, today, today)) :
          \E r \in {check_stock(QUOTE_DICT, FUND_FLOW_DICT, INFO_CACHE, file, today,
                                stock_list[i], industry_answer, fundamental_data, up)} :
              /\ INFO_CACHE' = r.info
              /\ cache_dir' = IF r.file = file THEN cache_dir
                              ELSE [k \in DOMAIN cache_dir \cup {stock_list[i]} |->
                                       IF k = stock_list[i] THEN r.file ELSE cache_dir[k]]
              /\ writes' = IF r.ret # "None" /\ Saves(file, today, today - 180, today, up)
                           THEN writes \cup {[task |-> i, code |-> stock_list[i],
                                              beside |-> {j \in Running \ {i} :
                                                             stock_list[j] = stock_list[i]}]}
                           ELSE writes
              /\ outcome' = [outcome EXCEPT ![i] =
                                IF r.ret = "None" THEN ReturnsNone
                                ELSE IF r.ret = "raise" THEN Raises
                                ELSE ReturnsRow(r.total_score)]
    /\ task' = [task EXCEPT ![i] = "finished"]
    /\ UNCHANGED <<cache_file, today, h, timerVars>>
    /\ UNCHANGED <<stock_list, max_workers, results, pc, picked>>
    /\ UNCHANGED <<QUOTE_DICT, FUND_FLOW_DICT, HALF_YEAR_HIGH_SET, ljqd_blacklist,
                   stock_data, op>>

NextPool ==
    \/ Submit
    \/ \E i \in Tasks : StartTask(i)
    \/ \E i \in Tasks : WorkerCheckStock(i)
    \/ \E i \in Tasks : Collect(i)
    \/ Return
    \/ Abort
    \/ Rank

SpecPool == InitPool /\ [][NextPool]_vars

(***************************************************************************)
(* Properties of the scan with real workers, checked under SpecPool.       *)
(***************************************************************************)
ScanRuns == pc \in {"collect", "raised"}

\* C23: while the scan runs, QUOTE_DICT, FUND_FLOW_DICT and the reference sets
\* stay as they were when the pool started, and no cache file is written by
\* two workers (two tasks that sat in workers at the same time).
WorkersShareNoWrittenState ==
    [][/\ ScanRuns => /\ QUOTE_DICT' = QUOTE_DICT
                      /\ FUND_FLOW_DICT' = FUND_FLOW_DICT
                      /\ HALF_YEAR_HIGH_SET' = HALF_YEAR_HIGH_SET
                      /\ ljqd_blacklist' = ljqd_blacklist
       /\ \A w1 \in writes', w2 \in writes' :
             ~(w1.code = w2.code /\ w2.task \in w1.beside)
      ]_vars

\* C30: a failed industry lookup is stored as None; every code of the stock
\* list is in INFO_CACHE when the pool starts, so a lookup of it is answered
\* from the cache (None after a failure) without an upstream call even when
\* upstream would answer now, and no worker step changes INFO_CACHE.
FailedLookupCachedBeforeTheScan ==
    [][/\ (pc = "start" /\ pc' = "collect") =>
              \A i \in 1..Len(stock_list') :
                  stock_list'[i] \notin DOMAIN INFO_CACHE =>
                      /\ stock_list'[i] \in DOMAIN INFO_CACHE'
                      /\ INFO_CACHE'[stock_list'[i]] = None
       /\ ScanRuns' =>
              \A i \in 1..Len(stock_list') :
                  \E r \in {get_industry_from_cache(INFO_CACHE', stock_list'[i], Semiconductor)} :
                      /\ ~r.called
                      /\ r.info = INFO_CACHE'
                      /\ stock_list'[i] \in DOMAIN INFO_CACHE'
                      /\ r.industry = INFO_CACHE'[stock_list'[i]]
       /\ ScanRuns => INFO_CACHE' = INFO_CACHE
      ]_vars

\* C30 witness: a task of a code whose lookup had failed passed the gates and
\* ran to its end, and the cache still holds None for the code.
WorkerUsedCachedFailure ==
    /\ ScanRuns
    /\ \E i \in Tasks :
          /\ task[i] \in {"finished", "collected"}
          /\ outcome[i].kind \in {"row", "raise"}
          /\ INFO_CACHE[stock_list[i]] = None

(***************************************************************************)
(* The mail timer of email_job.py: schedule_jobs and run_timer.  The       *)
(* clock is the day number `today` and the minute of the day `now`.        *)
(***************************************************************************)
\* datetime.date.weekday(): Monday is 0; 1970-01-01 was a Thursday.
weekday(date) == (Epoch + date + 3) % 7

\* holidays.China(): the public holidays among the days of the model, the
\* three days of National Day 2024.
cn_holidays == {3, 4, 5}

\* is_trading_day, utils.py lines 196-210.
is_trading_day(date) ==
    IF weekday(date) >= 5 THEN FALSE
    ELSE IF date \in cn_holidays THEN FALSE
    ELSE TRUE

\* "14:42" and "14:45" as minutes of the day.
At1442 == 882
At1445 == 885

\* The minutes at which the timer reads the clock: inside and after the
\* refresh window, before, at and after the two job times.
Minutes == {0, 4, 5, 881, At1442, At1445, 1439}

\* The next run of a daily job looked at on (date, minute): today when its
\* time is still ahead, tomorrow otherwise.
NextRun(at, date, minute) == IF minute < at THEN <<date, at>> ELSE <<date + 1, at>>

\* schedule.every().day.at(at).do(do)
Job(at, do, date, minute) == [at |-> at, do |-> do, next_run |-> NextRun(at, date, minute)]

\* Faulty variant of schedule_jobs: the registry is not cleared first.
ScheduleJobsOnTopOfOld(registered, date, minute) ==
    IF ~is_trading_day(date) THEN registered
    ELSE Append(Append(registered,
                       Job(At1442, "run_strategy_until_close", date, minute)),
                Job(At1445, "send_daily_report", date, minute))

\* schedule_jobs, email_job.py lines 353-374: the registry after the call.
schedule_jobs(registered, date, minute) ==
    LET cleared == SubSeq(registered, 1, 0)
    IN  IF ~is_trading_day(date) THEN cleared
        ELSE Append(Append(cleared,
                           Job(At1442, "run_strategy_until_close", date, minute)),
                    Job(At1445, "send_daily_report", date, minute))

\* A job is due when its next run is not after the clock.
Due(job, date, minute) ==
    \/ job.next_run[1] < date
    \/ job.next_run[1] = date /\ job.next_run[2] <= minute

\* schedule.run_pending(), line 383: the due jobs run in the order of their
\* next runs and are set to their next day; a job that raises ends the round
\* and keeps its next run (run_timer catches and prints).
run_pending(registered, date, minute, report_raises) ==
    [i \in DOMAIN registered |->
        IF /\ Due(registered[i], date, minute)
           /\ ~(report_raises /\ registered[i].do = "send_daily_report")
        THEN [registered[i] EXCEPT !.next_run = NextRun(registered[i].at, date, minute)]
        ELSE registered[i]]

\* What a call of schedule_jobs leaves in the observation: the days of all
\* calls so far, the day of this call, and what it did.
ScheduleOp(date) ==
    [NoOp EXCEPT !.name = "schedule_jobs",
                 !.steps = IF op.name = "schedule_jobs" THEN Append(op.steps, date) ELSE <<date>>,
                 !.value = date,
                 !.ret = IF is_trading_day(date) THEN "registered" ELSE "skipped"]

\* The program is not started yet and a day passes.
DayBeforeStart ==
    /\ timer = "off"
    /\ NextDay

\* run_timer line 378: the call of schedule_jobs at start, at any minute.
RunTimer ==
    /\ timer = "off"
    /\ \E minute \in Minutes :
          /\ now' = minute
          /\ jobs' = schedule_jobs(jobs, today, minute)
    /\ last_refresh_date' = NoDate
    /\ timer' = "pending"
    /\ op' = ScheduleOp(today)
    /\ UNCHANGED <<cache_file, today, h, cache_dir, writes>>
    /\ UNCHANGED scanVars
    /\ UNCHANGED refVars
    /\ UNCHANGED stock_data

\* run_timer lines 382-385.
RunPending ==
    /\ timer = "pending"
    /\ \E report_raises \in BOOLEAN :
          jobs' = run_pending(jobs, today, now, report_raises)
    /\ timer' = "refresh"
    /\ UNCHANGED <<last_refresh_date, now>>
    /\ UNCHANGED <<cache_file, today, h, cache_dir, writes>>
    /\ UNCHANGED scanVars
    /\ UNCHANGED screenVars

\* run_timer lines 388-391: the refresh of the registration after midnight.
Refresh ==
    /\ timer = "refresh"
    /\ IF today # last_refresh_date /\ now < 5
       THEN /\ jobs' = schedule_jobs(jobs, today, now)
            /\ last_refresh_date' = today
            /\ op' = ScheduleOp(today)
       ELSE UNCHANGED <<jobs, last_refresh_date, op>>
    /\ timer' = "sleep"
    /\ UNCHANGED now
    /\ UNCHANGED <<cache_file, today, h, cache_dir, writes>>
    /\ UNCHANGED scanVars
    /\ UNCHANGED refVars
    /\ UNCHANGED stock_data

\* run_timer line 393: time passes, within the day or into the next day.
Sleep ==
    /\ timer = "sleep"
    /\ \/ /\ \E minute \in Minutes : minute > now /\ now' = minute
          /\ UNCHANGED today
       \/ /\ today < MaxDay
          /\ today' = today + 1
          /\ now' \in Minutes
    /\ timer' = "pending"
    /\ UNCHANGED <<jobs, last_refresh_date>>
    /\ UNCHANGED <<cache_file, h, cache_dir, writes>>
    /\ UNCHANGED scanVars
    /\ UNCHANGED screenVars

NextTimer == DayBeforeStart \/ RunTimer \/ RunPending \/ Refresh \/ Sleep

SpecTimer == InitHist /\ [][NextTimer]_vars

\* What is registered: time and function of every job, in order.
Registered == [i \in DOMAIN jobs |-> <<jobs[i].at, jobs[i].do>>]

DailyJobs == <<<<At1442, "run_strategy_until_close">>, <<At1445, "send_daily_report">>>>

\* C26: after any number of calls of schedule_jobs the registry holds
\* exactly the 14:42 strategy job and the 14:45 report job when the last
\* call was on a trading day, and nothing when it was not.
RegistryFollowsLastCall ==
    timer # "off" =>
        /\ op.name = "schedule_jobs"
        /\ Registered = IF is_trading_day(op.steps[Len(op.steps)]) THEN DailyJobs ELSE << >>

\* C26 witness: a call that registered followed a call that had registered.
RegisteredTwiceInARow ==
    /\ timer # "off"
    /\ Len(op.steps) >= 2
    /\ is_trading_day(op.steps[Len(op.steps)])
    /\ is_trading_day(op.steps[Len(op.steps) - 1])
    /\ Len(jobs) = 2

(***************************************************************************)
(* calculate_fundamental_score on fundamentals around its hard gates.      *)
(* Ratios are in hundredths, as elsewhere.                                 *)
(***************************************************************************)
\* Fundamentals at and beside every threshold of lines 681-701, the fields
\* no gate reads held at sound values.
GateFundamentals ==
    [missing : {FALSE}, net_profit : {-1, 0, 1}, roe : {13}, gross_margin : {9, 10},
     net_profit_growth : {-11, -1, 0}, revenue_growth : {-3, 2, 3, 5},
     debt_ratio : {70, 75, 80, 81}, current_ratio : {79, 80}, pe_ratio : {15}]

\* One call calculate_fundamental_score(code, industry), get_fundamental_data
\* answering fundamental_data.
FundamentalScore ==
    \E fundamental_data \in GateFundamentals, industry \in {Bank, Semiconductor} :
        /\ op' = [NoOp EXCEPT !.name = "calculate_fundamental_score",
                              !.args = <<fundamental_data, industry>>,
                              !.value = calculate_fundamental_score(fundamental_data, industry)]
        /\ UNCHANGED <<QUOTE_DICT, FUND_FLOW_DICT, INFO_CACHE, HALF_YEAR_HIGH_SET,
                       ljqd_blacklist, stock_data>>
        /\ UNCHANGED histVars
        /\ UNCHANGED scanVars

NextFund == FundamentalScore

SpecFund == InitScore /\ [][NextFund]_vars

\* C25: fundamentals that are not zeroed for an issuer outside the growth
\* sectors are not zeroed for a growth issuer either; a growth issuer whose
\* revenue declined modestly, otherwise sound, is not zeroed; and a growth
\* issuer is still scored at a debt ratio above the ceiling of the others.
GrowthGatesRelaxTheOthers ==
    op.name = "calculate_fundamental_score" =>
        \E d \in {op.args[1]} :
            /\ (op.args[2] = Bank /\ op.value > 0)
                   => calculate_fundamental_score(d, Semiconductor) > 0
            /\ (/\ op.args[2] = Semiconductor
                /\ d.revenue_growth < 0
                /\ d.net_profit > 0
                /\ d.net_profit_growth >= 0
                /\ d.debt_ratio <= 70) => op.value > 0
            /\ (/\ op.args[2] = Semiconductor
                /\ d.revenue_growth >= 5
                /\ d.net_profit > 0
                /\ d.debt_ratio > 70
                /\ d.debt_ratio <= 80) => /\ op.value > 0
                                          /\ calculate_fundamental_score(d, Bank) = 0

\* C29: whatever path a call of get_stock_history returns on (cache hit,
\* delta or full fetch, empty answer, upstream failure), every bar returned
\* has start_date <= date <= end_date and the bars are in ascending order of
\* date.
ReturnedBarsInRangeAscending ==
    h.op = "call" =>
        /\ \A i \in DOMAIN h.ret : h.start <= h.ret[i].date /\ h.ret[i].date <= h.end
        /\ \A i \in DOMAIN h.ret : \A j \in DOMAIN h.ret :
              i < j => h.ret[i].date <= h.ret[j].date

\* C29 witness: a fetch merged bars outside the range asked into the file
\* and returned the bars of the range, more than one.
SlicedOutOfMergedFrame ==
    /\ h.op = "call"
    /\ h.up = "rows"
    /\ Len(h.ret) >= 2
    /\ \E i \in DOMAIN cache_file.rows :
          cache_file.rows[i].date < h.start \/ cache_file.rows[i].date > h.end

\* The days of month m of year y.
DaysInMonth(y, m) ==
    IF m \in {4, 6, 9, 11} THEN 30
    ELSE IF m # 2 THEN 31
    ELSE IF y % 4 = 0 /\ (y % 100 # 0 \/ y % 400 = 0) THEN 29 ELSE 28

\* The eight digits YYYYMMDD spell a date of the calendar.
IsCalendarDate(yyyymmdd) ==
    LET y == yyyymmdd \div 10000
        m == (yyyymmdd \div 100) % 100
        d == yyyymmdd % 100
    IN  /\ m \in 1..12
        /\ d \in 1..DaysInMonth(y, m)

\* C28: an incremental fetch of init_quote_dict starts on the calendar day
\* after the latest stored trade date, a valid YYYYMMDD date also when that
\* date is the last day of a month.
IncrementalFetchStartsNextDay ==
    op.name = "init_quote_dict" =>
        \A i \in DOMAIN op.fetches :
            op.fetches[i].existing_end_date # 0 =>
                /\ IsCalendarDate(op.fetches[i].start_date)
                /\ \E d \in 1..MaxDay :
                      /\ strftime(d) = op.fetches[i].existing_end_date
                      /\ strftime(d + 1) = op.fetches[i].start_date

(***************************************************************************)
(* A whole run of __main__: init_quote_dict, then the scan of              *)
(* pick_stocks_multithread with check_stock in every worker, then the      *)
(* ranking of what it returned.                                            *)
(***************************************************************************)
NextMain ==
    \/ InitQuoteDict
    \/ Submit
    \/ \E i \in Tasks : StartTask(i)
    \/ \E i \in Tasks : WorkerCheckStock(i)
    \/ \E i \in Tasks : Collect(i)
    \/ Return
    \/ Rank
    \/ NewRun
    \/ NextDay

SpecMain == InitQuote /\ [][NextMain]_vars

\* C27: every entry of QUOTE_DICT that init_quote_dict built has turnover
\* rate 0 and free-float market cap 0, so check_stock returns None for every
\* symbol at the turnover gate (0 < 0.15) and pick_stocks_multithread returns
\* an empty result set.
BuiltQuotesPassNoSymbol ==
    /\ \A code \in DOMAIN QUOTE_DICT :
          /\ QUOTE_DICT[code].turnover_rate = 0
          /\ QUOTE_DICT[code].free_float_mkt_cap = 0
          /\ QUOTE_DICT[code].turnover_rate
                 < get_dynamic_turnover_threshold(QUOTE_DICT[code].free_float_mkt_cap)
    /\ \A i \in Tasks : task[i] \in {"finished", "collected"} => outcome[i] = ReturnsNone
    /\ results = << >>
    /\ pc = "returned" => picked = << >>

\* C27 witness: the scan of a list with a symbol that has a built quote
\* entry returned.
ScanOfBuiltQuotesReturned ==
    /\ pc = "returned"
    /\ \E i \in Tasks : stock_list[i] \in DOMAIN QUOTE_DICT /\ task[i] = "collected"

(***************************************************************************)
(* The scan with an upstream call that never returns.  check_stock calls   *)
(* upstream without a timeout (lines 449-456), past the gates only.        *)
(***************************************************************************)
\* The upstream call of task i never returns: its worker is blocked for
\* good.  One call hangs at most.
Hang(i) ==
    /\ task[i] = "running"
    /\ PassesGates(QUOTE_DICT, FUND_FLOW_DICT, stock_list[i])
    /\ \A j \in Tasks : task[j] # "hung"
    /\ task' = [task EXCEPT ![i] = "hung"]
    /\ UNCHANGED <<stock_list, outcome, max_workers, results, pc, picked>>
    /\ UNCHANGED histVars
    /\ UNCHANGED screenVars

NextHang ==
    \/ NextScan
    \/ \E i \in Tasks : Hang(i)

\* A free worker takes the next queued work item (the worker loop of
\* ThreadPoolExecutor), and a call of check_stock that does not hang ends.
FairWorkers ==
    \A i \in 1..MaxList :
        /\ WF_vars(i \in Tasks /\ StartTask(i))
        /\ WF_vars(i \in Tasks /\ FinishTask(i))

SpecHang == InitScan /\ [][NextHang]_vars /\ FairWorkers

\* C24: with a pool of at least two workers, when one call of check_stock
\* never returns, every other submitted symbol is still evaluated in the end.
HungCallBlocksOneWorkerOnly ==
    \A i \in 1..MaxList :
        (i \in Tasks /\ max_workers >= 2)
            ~> (i \in Tasks /\ task[i] \in {"finished", "collected", "hung"})

\* C24 witness: one call hangs and every other symbol of a list of three was
\* evaluated.
OthersEvaluatedBesideHungCall ==
    /\ max_workers >= 2
    /\ Len(stock_list) >= 3
    /\ task[1] = "hung"
    /\ \A i \in Tasks \ {1} : task[i] \in {"finished", "collected"}

====
